---- MODULE Spec2Model ----
(***************************************************************************)
(* Model of the f1-cli-simulator race engine                               *)
(* (src/src/simulator/simulation.rs, src/src/simulator/prediction.rs,      *)
(* src/src/utils.rs).                                                      *)
(*                                                                         *)
(* Number representation.  The code computes with f64; the model computes  *)
(* with exact fixed-point integers:                                        *)
(*   - a performance score p is held as p * 10^9 (PerfOne is 1.0);         *)
(*   - skills, team coefficients and base reliabilities are hundredths;    *)
(*   - weather_factor is held in tenths, reliability_factor in hundredths; *)
(*   - a uniform draw of rng.gen::<f64>() is held in ten-thousandths;      *)
(*   - a Normal(0, sigma) sample is sigma * z for a whole number z of      *)
(*     standard deviations;                                                *)
(*   - a std::time::Duration is the record [secs, nanos] it is in Rust.    *)
(* Floating-point rounding error is not modelled.                          *)
(***************************************************************************)
EXTENDS Integers, Sequences, FiniteSets

VARIABLES
    drivers,             \* &[Driver]: sequence of [name, team]
    params,              \* SimulationParameters
    laps,                \* circuit.laps
    pc,                  \* position of the running function
    lap,                 \* the loop variable of the race loop
    positions,           \* Vec<(usize, f64, Duration, bool)>
    driver_performance,  \* HashMap<usize, f64>
    dnf_drivers,         \* Vec<usize>
    fastest_lap,         \* Option<(usize, Duration)>: <<>> is None, <<x>> is Some(x)
    results,             \* the rows of the final classification
    call,                \* the entry point invoked and its arguments; <<>> if none
    outcome,             \* its Result: <<>> while running, <<"Ok">> or <<"Err", ..>>
    stats,               \* the aggregation maps of prediction::simulate
    history,             \* the result lists of the prediction runs made so far
    loads,               \* the DataInterface loaders invoked so far
    frame                \* the locals of a function run step by step; <<>> if none

\* the variables of the entry points simulate / simulate_with_data_module
entry_vars == <<call, outcome, stats, history, loads>>

vars == <<drivers, params, laps, pc, lap, positions, driver_performance,
          dnf_drivers, fastest_lap, results, call, outcome, stats, history, loads,
          frame>>

\* the functions of the race are called directly, not through an entry point
CalledDirectly ==
    /\ call = <<>>
    /\ outcome = <<>>
    /\ stats = <<>>
    /\ history = <<>>
    /\ loads = <<>>
    /\ frame = <<>>

(***************************************************************************)
(* Bounds of the model.                                                    *)
(***************************************************************************)
MaxWeather == 15        \* weather_factor ranges over 0.1 .. MaxWeather / 10
MaxSigma == 4           \* Normal samples range over -MaxSigma .. MaxSigma deviations
MaxGridDrivers == 3     \* drivers of a list given to the grid initializer alone
MaxLaps == 10           \* the longest race run lap by lap
MaxIncidentLaps == 2    \* laps after the warm-up of a race run with incidents
MaxResultDrivers == 11  \* drivers of a final classification
MaxRetired == 3         \* retired drivers of a race that has ended
MaxRuns == 3            \* runs of a prediction
MaxAggDrivers == 4      \* drivers of an aggregated prediction
MaxReplayRows == 9      \* rows of the final classification of a replayed race
MaxReports == 2         \* retirements reported in one replay

(***************************************************************************)
(* Program constants.                                                      *)
(***************************************************************************)
WarmupLaps == 5         \* `lap > 5` of the race loop

(***************************************************************************)
(* Fixed-point helpers.                                                    *)
(***************************************************************************)
PerfOne == 1000 * 1000 * 1000

Million == 1000 * 1000

\* floor(a * num / 1000) without leaving 32-bit integers (0 <= a, 0 <= num < 2000)
MulDivThousand(a, num) ==
    (a \div 1000) * num + ((a % 1000) * num) \div 1000

Range(s) == {s[i] : i \in DOMAIN s}

(***************************************************************************)
(* Entity catalog.                                                         *)
(***************************************************************************)
CURRENT_DRIVERS ==
    << "Max Verstappen", "Sergio Perez", "Charles Leclerc", "Carlos Sainz",
       "Lewis Hamilton", "George Russell", "Lando Norris", "Oscar Piastri",
       "Fernando Alonso", "Lance Stroll", "Pierre Gasly", "Esteban Ocon",
       "Alexander Albon", "Logan Sargeant", "Yuki Tsunoda", "Liam Lawson",
       "Kevin Magnussen", "Nico Hulkenberg", "Valtteri Bottas", "Guanyu Zhou" >>

CURRENT_TEAMS ==
    << "Red Bull Racing", "Ferrari", "Mercedes", "McLaren", "Aston Martin",
       "Alpine", "Williams", "RB", "Haas F1 Team", "Sauber" >>

\* create_current_drivers: driver i (0-based) drives for team i / 2
create_current_drivers ==
    [i \in 1..Len(CURRENT_DRIVERS) |->
        [name |-> CURRENT_DRIVERS[i], team |-> CURRENT_TEAMS[((i - 1) \div 2) + 1]]]

\* the driver list of tests/simulation_tests.rs
create_test_drivers ==
    << [name |-> "Max Verstappen", team |-> "Red Bull Racing"],
       [name |-> "Lewis Hamilton", team |-> "Mercedes"],
       [name |-> "Charles Leclerc", team |-> "Ferrari"] >>

\* driver_skill.get(name).unwrap_or(&0.90), in hundredths
DriverSkill(name) ==
    CASE name = "Max Verstappen" -> 98
      [] name = "Sergio Perez" -> 92
      [] name = "Charles Leclerc" -> 95
      [] name = "Carlos Sainz" -> 94
      [] name = "Lewis Hamilton" -> 96
      [] name = "George Russell" -> 94
      [] name = "Lando Norris" -> 96
      [] name = "Oscar Piastri" -> 93
      [] name = "Fernando Alonso" -> 95
      [] name = "Lance Stroll" -> 90
      [] OTHER -> 90

\* team_performance.get(team).unwrap_or(&0.85), in hundredths
TeamPerformance(team) ==
    CASE team = "Red Bull Racing" -> 98
      [] team = "Ferrari" -> 96
      [] team = "Mercedes" -> 95
      [] team = "McLaren" -> 97
      [] team = "Aston Martin" -> 92
      [] team = "Alpine" -> 89
      [] team = "Williams" -> 87
      [] team = "RB" -> 88
      [] team = "Haas F1 Team" -> 86
      [] team = "Sauber" -> 85
      [] OTHER -> 85

(***************************************************************************)
(* Performance model.                                                      *)
(***************************************************************************)
\* a mutation of WeatherAdjustment: the dry branch is missing
WeatherAdjustmentNoBranch(weather_factor) ==
    70 + 3 * weather_factor

\* weather_adjustment of calculate_driver_base_performance, in hundredths
\* (weather_factor in tenths: 0.7 + wf * 0.3 = (70 + 3 * wf10) / 100)
WeatherAdjustment(weather_factor) ==
    IF weather_factor < 10 THEN 70 + 3 * weather_factor ELSE 100

\* skill * team_perf * weather_adjustment, scaled to PerfOne
calculate_driver_base_performance(driver, p) ==
    DriverSkill(driver.name) * TeamPerformance(driver.team)
        * WeatherAdjustment(p.weather_factor) * 1000

(***************************************************************************)
(* std::time::Duration and the performance-to-time conversion.             *)
(***************************************************************************)
DurLess(a, b) ==
    \/ a.secs < b.secs
    \/ a.secs = b.secs /\ a.nanos < b.nanos

DurLessEq(a, b) == ~DurLess(b, a)

\* the Duration of a whole number of microseconds plus a number of nanoseconds
DurationOf(micros, extra_nanos) ==
    LET low == (micros % Million) * 1000 + extra_nanos
    IN  [secs |-> (micros \div Million) + (low \div PerfOne),
         nanos |-> low % PerfOne]

\* base_lap_time.mul_f64(1.0 + (1.0 - perf) * k) for the base lap time of 90 s:
\* 90e9 ns + 90 * k * (PerfOne - perf) ns, cut to whole nanoseconds by `as u64`
\* (which gives 0 for a negative product).  coef is 90 * k * 10: 135 for
\* k = 0.15, 180 for k = 0.20.
PerformanceToTime(perf, coef) ==
    LET d == PerfOne - perf
        q == d \div Million
        r == d % Million
        micros == 90 * Million + coef * q * 100
        extra == (coef * r) \div 10
    IN  IF micros < 0 THEN [secs |-> 0, nanos |-> 0] ELSE DurationOf(micros, extra)

\* 1.0 + Normal(0, sigma).sample(), times the base: sigma is given in thousandths
\* and the sample is z standard deviations
ApplyVariation(base, sigma, z) ==
    MulDivThousand(base, 1000 + sigma * z)

(***************************************************************************)
(* Grid initializer.                                                       *)
(***************************************************************************)
\* a mutation of InsertByTime: the entry goes before the entries of equal time
InsertByTimeUnstable(sorted, e) ==
    LET k == Cardinality({j \in DOMAIN sorted : DurLess(sorted[j].time, e.time)})
    IN  SubSeq(sorted, 1, k) \o <<e>> \o SubSeq(sorted, k + 1, Len(sorted))

\* one step of the stable sort: e goes behind every entry whose time is not greater
InsertByTime(sorted, e) ==
    LET k == Cardinality({j \in DOMAIN sorted : DurLessEq(sorted[j].time, e.time)})
    IN  SubSeq(sorted, 1, k) \o <<e>> \o SubSeq(sorted, k + 1, Len(sorted))

\* positions.sort_by(|a, b| a.2.cmp(&b.2)): a stable sort by the time
RECURSIVE SortByTime(_)
SortByTime(s) ==
    IF s = <<>> THEN <<>>
    ELSE InsertByTime(SortByTime(SubSeq(s, 1, Len(s) - 1)), s[Len(s)])

\* the tuple pushed for driver i (0-based), with qualifying sample z
QualifyingEntry(ds, p, i, z) ==
    LET base_perf == calculate_driver_base_performance(ds[i + 1], p)
        quali_performance == ApplyVariation(base_perf, 15, z)
    IN  [idx |-> i,
         perf |-> quali_performance,
         time |-> PerformanceToTime(quali_performance, 135),
         active |-> TRUE]

\* zs[i + 1] is the qualifying sample of driver i
initialize_driver_positions(ds, p, zs) ==
    SortByTime([k \in 1..Len(ds) |-> QualifyingEntry(ds, p, k - 1, zs[k])])

(***************************************************************************)
(* Lap progression: update_race_positions.                                 *)
(***************************************************************************)
\* a mutation of Swap: the overtaking entry is copied over the one ahead
SwapOverwriting(s, a, b) == [s EXCEPT ![b] = s[a]]

\* a mutation of Swap: the overtaking entry changes places with the leader
SwapWithLeader(s, a, b) == [s EXCEPT ![a] = s[1], ![1] = s[a]]

\* positions.swap(a, b)
Swap(s, a, b) == [s EXCEPT ![a] = s[b], ![b] = s[a]]

\* overtake_chance > 0.0 && rng.gen::<f64>() < overtake_chance, where
\* overtake_chance = diff * 2.5 (u in ten-thousandths, diff scaled to PerfOne)
OvertakeSucceeds(diff, u) ==
    /\ diff > 0
    /\ u * 40000 < diff

\* a mutation of BasePerformanceOf: the lap starts from the score the entry
\* holds from the lap before
BasePerformanceFromLastLap(perf_map, driver_idx) ==
    positions[CHOOSE k \in DOMAIN positions : positions[k].idx = driver_idx].perf

\* *driver_performance.get(&driver_idx).unwrap_or(&0.9)
BasePerformanceOf(perf_map, driver_idx) ==
    IF driver_idx \in DOMAIN perf_map THEN perf_map[driver_idx] ELSE 900 * Million

\* lap_performance = base_perf * (1.0 + Normal(0.0, 0.01 * weather_factor).sample())
LapPerformance(base_perf, p, z) ==
    ApplyVariation(base_perf, p.weather_factor, z)

\* a mutation of UpdateFrom: no entry is skipped and the tuple is written anew
\* with its flag set
RECURSIVE UpdateFromReactivating(_, _, _, _, _, _)
UpdateFromReactivating(pos, k, perf_map, p, zs, us) ==
    IF k > Len(pos) THEN pos
    ELSE
        LET base_perf == BasePerformanceOf(perf_map, pos[k].idx)
            resampled == [pos EXCEPT ![k].perf = LapPerformance(base_perf, p, zs[k]),
                                     ![k].active = TRUE]
            overtake ==
                /\ k > 1
                /\ resampled[k].active
                /\ resampled[k - 1].active
                /\ OvertakeSucceeds(resampled[k].perf - resampled[k - 1].perf, us[k])
            after == IF overtake THEN Swap(resampled, k, k - 1) ELSE resampled
        IN  UpdateFromReactivating(after, k + 1, perf_map, p, zs, us)

\* a mutation of UpdateFrom: a retired entry is resampled like the others
RECURSIVE UpdateFromResamplingRetired(_, _, _, _, _, _)
UpdateFromResamplingRetired(pos, k, perf_map, p, zs, us) ==
    IF k > Len(pos) THEN pos
    ELSE
        LET base_perf == BasePerformanceOf(perf_map, pos[k].idx)
            resampled == [pos EXCEPT ![k].perf = LapPerformance(base_perf, p, zs[k])]
            overtake ==
                /\ k > 1
                /\ resampled[k].active
                /\ resampled[k - 1].active
                /\ OvertakeSucceeds(resampled[k].perf - resampled[k - 1].perf, us[k])
            after == IF overtake THEN Swap(resampled, k, k - 1) ELSE resampled
        IN  UpdateFromResamplingRetired(after, k + 1, perf_map, p, zs, us)

\* a mutation of UpdateFrom: the overtake does not ask whether the entry ahead
\* is still racing
RECURSIVE UpdateFromPassingRetired(_, _, _, _, _, _)
UpdateFromPassingRetired(pos, k, perf_map, p, zs, us) ==
    IF k > Len(pos) THEN pos
    ELSE IF ~pos[k].active
         THEN UpdateFromPassingRetired(pos, k + 1, perf_map, p, zs, us)
    ELSE
        LET base_perf == BasePerformanceOf(perf_map, pos[k].idx)
            resampled == [pos EXCEPT ![k].perf = LapPerformance(base_perf, p, zs[k])]
            overtake ==
                /\ k > 1
                /\ resampled[k].active
                /\ OvertakeSucceeds(resampled[k].perf - resampled[k - 1].perf, us[k])
            after == IF overtake THEN Swap(resampled, k, k - 1) ELSE resampled
        IN  UpdateFromPassingRetired(after, k + 1, perf_map, p, zs, us)

\* the loop body for index k (1-based) and the iterations after it;
\* zs[k] and us[k] are the Normal and the uniform draw of iteration k
RECURSIVE UpdateFrom(_, _, _, _, _, _)
UpdateFrom(pos, k, perf_map, p, zs, us) ==
    IF k > Len(pos) THEN pos
    ELSE IF ~pos[k].active THEN UpdateFrom(pos, k + 1, perf_map, p, zs, us)
    ELSE
        LET base_perf == BasePerformanceOf(perf_map, pos[k].idx)
            resampled == [pos EXCEPT ![k].perf = LapPerformance(base_perf, p, zs[k])]
            overtake ==
                /\ k > 1
                /\ resampled[k].active
                /\ resampled[k - 1].active
                /\ OvertakeSucceeds(resampled[k].perf - resampled[k - 1].perf, us[k])
            after == IF overtake THEN Swap(resampled, k, k - 1) ELSE resampled
        IN  UpdateFrom(after, k + 1, perf_map, p, zs, us)

update_race_positions(pos, perf_map, p, zs, us) ==
    UpdateFrom(pos, 1, perf_map, p, zs, us)

(***************************************************************************)
(* Incident model: check_for_incidents and utils::simulate_mechanical_failure. *)
(***************************************************************************)
\* base_reliability, in hundredths: the first pattern the lower-cased team name
\* contains, evaluated for the team names of the catalogue
BaseReliability(team) ==
    CASE team = "Mercedes" -> 95
      [] team \in {"Red Bull Racing", "red bull racing"} -> 96
      [] team = "Ferrari" -> 94
      [] team = "McLaren" -> 95
      [] team = "Aston Martin" -> 93
      [] team = "Alpine" -> 92
      [] team = "Williams" -> 91
      [] team = "Haas F1 Team" -> 90
      [] team = "Sauber" -> 90
      [] OTHER -> 92

\* rng.gen::<f64>() < (1.0 - base_reliability) * (1.0 / reliability_factor);
\* with a factor of 0.0 the chance is +inf, with a negative one it is negative
simulate_mechanical_failure(driver, reliability_factor, u) ==
    IF reliability_factor > 0
    THEN u * reliability_factor < (100 - BaseReliability(driver.team)) * 10000
    ELSE reliability_factor = 0

\* rng.gen::<f64>() < 0.0005 * incident_factor / reliability_factor
RacingIncident(p, u) ==
    LET incident_factor == IF p.weather_factor < 8 THEN 3 ELSE 1
    IN  IF p.reliability_factor > 0
        THEN u * p.reliability_factor < 500 * incident_factor
        ELSE p.reliability_factor = 0

\* a mutation of IncidentsFrom: a racing incident stops the entry but the
\* driver is not recorded in dnf_drivers
RECURSIVE IncidentsFromNotRecordingCrash(_, _, _, _, _, _)
IncidentsFromNotRecordingCrash(ds, st, k, p, mech, inc) ==
    IF k > Len(st.positions) THEN st
    ELSE
        LET e == st.positions[k]
        IN  IF ~e.active \/ e.idx \in Range(st.dnf)
            THEN IncidentsFromNotRecordingCrash(ds, st, k + 1, p, mech, inc)
            ELSE
                LET failed ==
                        simulate_mechanical_failure(ds[e.idx + 1],
                                                    p.reliability_factor, mech[k])
                    st1 == IF failed
                           THEN [positions |->
                                     [st.positions EXCEPT ![k].active = FALSE],
                                 dnf |-> Append(st.dnf, e.idx)]
                           ELSE st
                    crashed == RacingIncident(p, inc[k])
                    st2 == IF crashed
                           THEN [positions |->
                                     [st1.positions EXCEPT ![k].active = FALSE],
                                 dnf |-> st1.dnf]
                           ELSE st1
                IN  IncidentsFromNotRecordingCrash(ds, st2, k + 1, p, mech, inc)

\* the loop body for index k (1-based) and the iterations after it; st is
\* [positions, dnf]; mech[k] and inc[k] are the uniform draws of iteration k
RECURSIVE IncidentsFrom(_, _, _, _, _, _)
IncidentsFrom(ds, st, k, p, mech, inc) ==
    IF k > Len(st.positions) THEN st
    ELSE
        LET e == st.positions[k]
        IN  IF ~e.active \/ e.idx \in Range(st.dnf)
            THEN IncidentsFrom(ds, st, k + 1, p, mech, inc)
            ELSE
                LET failed ==
                        simulate_mechanical_failure(ds[e.idx + 1],
                                                    p.reliability_factor, mech[k])
                    st1 == IF failed
                           THEN [positions |->
                                     [st.positions EXCEPT ![k].active = FALSE],
                                 dnf |-> Append(st.dnf, e.idx)]
                           ELSE st
                    crashed == RacingIncident(p, inc[k])
                    st2 == IF crashed
                           THEN [positions |->
                                     [st1.positions EXCEPT ![k].active = FALSE],
                                 dnf |-> Append(st1.dnf, e.idx)]
                           ELSE st1
                IN  IncidentsFrom(ds, st2, k + 1, p, mech, inc)

check_for_incidents(ds, pos, dnf, p, mech, inc) ==
    IncidentsFrom(ds, [positions |-> pos, dnf |-> dnf], 1, p, mech, inc)

(***************************************************************************)
(* Fastest lap: update_fastest_lap.                                        *)
(***************************************************************************)
\* a mutation of FastestFrom: the score of a retired entry is timed as well
RECURSIVE FastestFromTimingRetired(_, _, _)
FastestFromTimingRetired(pos, k, fl) ==
    IF k > Len(pos) THEN fl
    ELSE
        LET lap_time == PerformanceToTime(pos[k].perf, 135)
            record == <<[idx |-> pos[k].idx, time |-> lap_time]>>
        IN  IF fl # <<>>
            THEN IF DurLess(lap_time, fl[1].time)
                 THEN FastestFromTimingRetired(pos, k + 1, record)
                 ELSE FastestFromTimingRetired(pos, k + 1, fl)
            ELSE FastestFromTimingRetired(pos, k + 1, record)

\* the loop body for index k (1-based) and the iterations after it
RECURSIVE FastestFrom(_, _, _)
FastestFrom(pos, k, fl) ==
    IF k > Len(pos) THEN fl
    ELSE IF ~pos[k].active THEN FastestFrom(pos, k + 1, fl)
    ELSE
        LET lap_time == PerformanceToTime(pos[k].perf, 135)
            record == <<[idx |-> pos[k].idx, time |-> lap_time]>>
        IN  IF fl # <<>>
            THEN IF DurLess(lap_time, fl[1].time)
                 THEN FastestFrom(pos, k + 1, record)
                 ELSE FastestFrom(pos, k + 1, fl)
            ELSE FastestFrom(pos, k + 1, record)

\* a mutation of update_fastest_lap: a lap without a timed entry still records
\* a fastest lap, for driver 0
UpdateFastestLapAlwaysRecording(pos, fl) ==
    IF FastestFrom(pos, 1, fl) = <<>>
    THEN <<[idx |-> 0, time |-> PerformanceToTime(PerfOne, 135)]>>
    ELSE FastestFrom(pos, 1, fl)

update_fastest_lap(pos, fl) == FastestFrom(pos, 1, fl)

(***************************************************************************)
(* Results: display_final_results.                                         *)
(***************************************************************************)
\* a mutation of PointsForPosition: the arm of position 10 is missing
PointsForPositionTopNine(pos) ==
    CASE pos = 1 -> 25
      [] pos = 2 -> 18
      [] pos = 3 -> 15
      [] pos = 4 -> 12
      [] pos = 5 -> 10
      [] pos = 6 -> 8
      [] pos = 7 -> 6
      [] pos = 8 -> 4
      [] pos = 9 -> 2
      [] OTHER -> 0

\* the match on the position of display_final_results and run_single_simulation
PointsForPosition(pos) ==
    CASE pos = 1 -> 25
      [] pos = 2 -> 18
      [] pos = 3 -> 15
      [] pos = 4 -> 12
      [] pos = 5 -> 10
      [] pos = 6 -> 8
      [] pos = 7 -> 6
      [] pos = 8 -> 4
      [] pos = 9 -> 2
      [] pos = 10 -> 1
      [] OTHER -> 0

\* a mutation of FastestLapBonus: the position is not looked at
FastestLapBonusAnyPosition(fl, driver_idx, pos) ==
    IF fl # <<>> /\ fl[1].idx = driver_idx THEN 1 ELSE 0

\* a mutation of FastestLapBonus: the holder is not looked at
FastestLapBonusAnyDriver(fl, driver_idx, pos) ==
    IF fl # <<>> /\ pos <= 10 THEN 1 ELSE 0

\* the point added for the fastest lap
FastestLapBonus(fl, driver_idx, pos) ==
    IF fl # <<>> /\ fl[1].idx = driver_idx /\ pos <= 10 THEN 1 ELSE 0

\* the row printed for the active entry at list index i (0-based); the time
\* column is the gap "+{:.3}s" of i * 2.5 seconds, held in tenths of a second
FinisherRow(pos_list, i, fl) ==
    LET driver_idx == pos_list[i + 1].idx
        pos == i + 1
    IN  [position |-> pos,
         driver |-> driver_idx,
         time |-> <<25 * i>>,
         points |-> PointsForPosition(pos) + FastestLapBonus(fl, driver_idx, pos),
         status |-> "Finished",
         fastest_lap |-> (fl # <<>> /\ fl[1].idx = driver_idx)]

\* the row printed for an entry of dnf_drivers: "DNF" in the position and the
\* time column (position 0 stands for it), 0 points
DnfRow(driver_idx) ==
    [position |-> 0,
     driver |-> driver_idx,
     time |-> <<>>,
     points |-> 0,
     status |-> "DNF",
     fastest_lap |-> FALSE]

RECURSIVE FinisherRows(_, _, _)
FinisherRows(pos_list, k, fl) ==
    IF k > Len(pos_list) THEN <<>>
    ELSE IF ~pos_list[k].active THEN FinisherRows(pos_list, k + 1, fl)
    ELSE <<FinisherRow(pos_list, k - 1, fl)>> \o FinisherRows(pos_list, k + 1, fl)

\* the rows in the order they are printed: the finishers, then the DNFs
display_final_results(pos_list, dnf, fl) ==
    FinisherRows(pos_list, 1, fl) \o [k \in DOMAIN dnf |-> DnfRow(dnf[k])]

(***************************************************************************)
(* Prediction: run_single_simulation (prediction.rs).                      *)
(***************************************************************************)
\* the descriptions of utils::get_random_incident
INCIDENTS ==
    << "Lost control in the corner", "Collision with another driver", "Puncture",
       "Engine failure", "Brake failure", "Hydraulic issue", "Electrical problem",
       "Gearbox failure", "Power unit issue", "Suspension damage",
       "Fuel pressure problem", "Cooling system issue" >>

\* SimulationParameters::default()
DefaultParameters ==
    [reliability_factor |-> 95, weather_factor |-> 10, random_incidents |-> TRUE]

\* average_lap_time.mul_f64(circuit.laps as f64)
MulByLaps(d, n) ==
    LET millis == (d.nanos \div Million) * n
        low == (millis % 1000) * Million + (d.nanos % Million) * n
    IN  [secs |-> d.secs * n + (millis \div 1000) + (low \div PerfOne),
         nanos |-> low % PerfOne]

\* format!("{}:{:02}.{:03}", secs / 60, secs % 60, subsec_millis)
FormatRaceTime(total_time) ==
    [minutes |-> total_time.secs \div 60,
     seconds |-> total_time.secs % 60,
     millis |-> total_time.nanos \div Million]

\* the tuple pushed to driver_performances for driver i (0-based)
RacePerformance(ds, n_laps, i, z) ==
    LET base_performance ==
            DriverSkill(ds[i + 1].name) * TeamPerformance(ds[i + 1].team) * 100 * 1000
        race_performance == ApplyVariation(base_performance, 30, z)
        average_lap_time == PerformanceToTime(race_performance, 180)
    IN  [idx |-> i,
         perf |-> race_performance,
         time |-> MulByLaps(average_lap_time, n_laps)]

\* the drivers pushed to dnf_drivers; mech[i + 1] is the uniform draw of driver i
PredictionDnfs(ds, p, mech) ==
    IF p.random_incidents
    THEN SelectSeq([k \in 1..Len(ds) |-> k - 1],
                   LAMBDA i : simulate_mechanical_failure(ds[i + 1],
                                                          p.reliability_factor,
                                                          mech[i + 1]))
    ELSE <<>>

\* a mutation of PredictionResult: a retired driver keeps its elapsed time
PredictionResultTimed(entry, position, dnf, n_laps, incident_lap, incident) ==
    IF entry.idx \in Range(dnf)
    THEN [position |-> position,
          driver |-> entry.idx,
          time |-> <<FormatRaceTime(entry.time)>>,
          points |-> 0,
          laps |-> incident_lap,
          status |-> INCIDENTS[incident]]
    ELSE [position |-> position,
          driver |-> entry.idx,
          time |-> <<FormatRaceTime(entry.time)>>,
          points |-> PointsForPosition(position),
          laps |-> n_laps,
          status |-> "Finished"]

\* the RaceResult of the entry at `position` (1-based) of the sorted list
PredictionResult(entry, position, dnf, n_laps, incident_lap, incident) ==
    IF entry.idx \in Range(dnf)
    THEN [position |-> position,
          driver |-> entry.idx,
          time |-> <<>>,
          points |-> 0,
          laps |-> incident_lap,
          status |-> INCIDENTS[incident]]
    ELSE [position |-> position,
          driver |-> entry.idx,
          time |-> <<FormatRaceTime(entry.time)>>,
          points |-> PointsForPosition(position),
          laps |-> n_laps,
          status |-> "Finished"]

\* zs[i + 1] is the Normal sample of driver i; incident_lap and incident are the
\* draws of rng.gen_range(..) and get_random_incident() of the retired drivers
run_single_simulation(ds, n_laps, p, zs, dnf, incident_lap, incident) ==
    LET driver_performances ==
            SortByTime([k \in 1..Len(ds) |-> RacePerformance(ds, n_laps, k - 1, zs[k])])
    IN  [k \in 1..Len(ds) |->
            PredictionResult(driver_performances[k], k, dnf, n_laps,
                             incident_lap, incident)]

(***************************************************************************)
(* Performance set-up of a race (simulate_instant_race, lines 122-127):    *)
(* the base performance of every driver of the list.                       *)
(***************************************************************************)
DriverIndices == 0..(Len(drivers) - 1)

SetupDriverPerformance ==
    /\ pc = "setup"
    /\ driver_performance' =
           [i \in DriverIndices |->
               calculate_driver_base_performance(drivers[i + 1], params)]
    /\ pc' = "loop"
    /\ lap' = 1
    /\ UNCHANGED <<entry_vars, frame>>
    /\ UNCHANGED <<drivers, params, laps, positions, dnf_drivers,
                   fastest_lap, results>>

SamplesOf(n, draws) == [1..n -> draws]

\* let mut driver_positions = initialize_driver_positions(drivers, params)
InitializeGrid(draws) ==
    /\ pc = "grid"
    /\ \E zs \in SamplesOf(Len(drivers), draws) :
           positions' = initialize_driver_positions(drivers, params, zs)
    /\ pc' = "setup"
    /\ UNCHANGED <<entry_vars, frame>>
    /\ UNCHANGED <<drivers, params, laps, lap, driver_performance, dnf_drivers,
                   fastest_lap, results>>

\* the names and teams the performance function is evaluated on: every entry of
\* the two tables and names that are in neither
PerfNames == Range(CURRENT_DRIVERS) \cup {"Test Driver"}

PerfTeams == Range(CURRENT_TEAMS) \cup {"Unknown Team", "red bull racing"}

InitPerformance ==
    /\ drivers \in {<<[name |-> n, team |-> t]>> : n \in PerfNames, t \in PerfTeams}
    /\ params \in [reliability_factor : {100},
                   weather_factor : 1..MaxWeather,
                   random_incidents : {FALSE}]
    /\ laps = 0
    /\ pc = "setup"
    /\ lap = 0
    /\ positions = <<>>
    /\ driver_performance = <<>>
    /\ dnf_drivers = <<>>
    /\ fastest_lap = <<>>
    /\ results = <<>>
    /\ CalledDirectly

NextPerformance == SetupDriverPerformance

SpecPerformance == InitPerformance /\ [][NextPerformance]_vars

KnownDriverNames == {CURRENT_DRIVERS[i] : i \in 1..10}

KnownTeamNames == Range(CURRENT_TEAMS)

\* the dry score of the specification: skill coefficient times team coefficient
DryScore(driver) ==
    DriverSkill(driver.name) * TeamPerformance(driver.team) * 100 * 1000

\* C9: calculate_driver_base_performance returns a value in (0, 1] for every
\* driver/team combination and every weather_factor > 0; an unknown driver counts
\* with skill 0.90 and an unknown team with 0.85; for weather_factor < 1.0 the
\* result is the dry score times 0.7 + weather_factor * 0.3, and for
\* weather_factor >= 1.0 it is the dry score.
C9_BasePerformanceInUnitInterval ==
    pc = "loop" =>
        \A i \in DOMAIN driver_performance :
            LET r == driver_performance[i]
                d == drivers[i + 1]
                w == params.weather_factor
            IN  /\ 0 < r
                /\ r <= PerfOne
                /\ (d.name \notin KnownDriverNames =>
                        DryScore(d) = 90 * TeamPerformance(d.team) * 100 * 1000)
                /\ (d.team \notin KnownTeamNames =>
                        DryScore(d) = DriverSkill(d.name) * 85 * 100 * 1000)
                /\ (w < 10 => r = (DryScore(d) \div 100) * (70 + 3 * w))
                /\ (w >= 10 => r = DryScore(d))

C9_Witness ==
    /\ pc = "loop"
    /\ params.weather_factor = 5
    /\ drivers[1].name \notin KnownDriverNames
    /\ drivers[1].team \notin KnownTeamNames
    /\ driver_performance[0] = 90 * 85 * 85 * 1000

(***************************************************************************)
(* The grid initializer on its own, for every driver list of up to         *)
(* MaxGridDrivers drivers of a small catalogue.                            *)
(***************************************************************************)
GridCatalogue ==
    Range(create_test_drivers) \cup {[name |-> "Test Driver", team |-> "Unknown Team"]}

QualiDraws == {-MaxSigma, -1, 0, 1, MaxSigma}

InitGrid ==
    /\ drivers \in UNION {[1..n -> GridCatalogue] : n \in 0..MaxGridDrivers}
    /\ params \in [reliability_factor : {100},
                   weather_factor : {5, 10},
                   random_incidents : {FALSE}]
    /\ laps = 0
    /\ pc = "grid"
    /\ lap = 0
    /\ positions = <<>>
    /\ driver_performance = <<>>
    /\ dnf_drivers = <<>>
    /\ fastest_lap = <<>>
    /\ results = <<>>
    /\ CalledDirectly

NextGrid == InitializeGrid(QualiDraws)

SpecGrid == InitGrid /\ [][NextGrid]_vars

\* C3: initialize_driver_positions on M drivers returns exactly M entries, one per
\* driver index, all active, in non-decreasing order of qualifying time, entries
\* of equal time in the order of their driver indices.
C3_GridSortedStableAllActive ==
    pc = "setup" =>
        /\ Len(positions) = Len(drivers)
        /\ {positions[k].idx : k \in DOMAIN positions} = DriverIndices
        /\ \A k \in DOMAIN positions : positions[k].active
        /\ \A j, k \in DOMAIN positions :
               j < k =>
                   /\ DurLessEq(positions[j].time, positions[k].time)
                   /\ (positions[j].time = positions[k].time =>
                           positions[j].idx < positions[k].idx)

C3_Witness ==
    /\ pc = "setup"
    /\ Len(positions) = 3
    /\ positions[1].idx = 1
    /\ positions[2].idx = 2
    /\ positions[1].time = positions[2].time
    /\ positions[3].idx = 0

(***************************************************************************)
(* The lap-by-lap engine: simulate_instant_race (simulate_interactive_race *)
(* runs the same steps between its displays).                              *)
(*   pc = "grid"      before initialize_driver_positions                  *)
(*   pc = "setup"     before the driver_performance map is filled          *)
(*   pc = "loop"      at the head of `for lap in 1..=circuit.laps`         *)
(*   pc = "incidents" before check_for_incidents of this lap               *)
(*   pc = "fastest"   before update_fastest_lap of this lap                *)
(*   pc = "done"      after display_final_results                          *)
(***************************************************************************)
LapDraws == {-MaxSigma, MaxSigma}

RaceQualiDraws == {0}

\* uniform draws in ten-thousandths: the least value and one close to 1
UniformDraws == {0, 9999}

\* a mutation of IncidentsDue: the warm-up laps are not exempt
IncidentsDueAnyLap(p, l) ==
    p.random_incidents

\* if params.random_incidents && lap > 5
IncidentsDue(p, l) ==
    p.random_incidents /\ l > WarmupLaps

\* a mutation of LoopContinues: the loop runs one lap too many
LoopContinuesOneMore(l, n) ==
    l <= n + 1

\* for lap in 1..=circuit.laps
LoopContinues(l, n) ==
    l <= n

UpdateRacePositions ==
    /\ pc = "loop"
    /\ LoopContinues(lap, laps)
    /\ \E zs \in SamplesOf(Len(positions), LapDraws),
          us \in SamplesOf(Len(positions), UniformDraws) :
           positions' = update_race_positions(positions, driver_performance,
                                              params, zs, us)
    /\ pc' = IF IncidentsDue(params, lap) THEN "incidents" ELSE "fastest"
    /\ UNCHANGED <<entry_vars, frame>>
    /\ UNCHANGED <<drivers, params, laps, lap, driver_performance, dnf_drivers,
                   fastest_lap, results>>

CheckForIncidents ==
    /\ pc = "incidents"
    /\ \E mech \in SamplesOf(Len(positions), UniformDraws),
          inc \in SamplesOf(Len(positions), UniformDraws) :
           LET st == check_for_incidents(drivers, positions, dnf_drivers,
                                         params, mech, inc)
           IN  /\ positions' = st.positions
               /\ dnf_drivers' = st.dnf
    /\ pc' = "fastest"
    /\ UNCHANGED <<entry_vars, frame>>
    /\ UNCHANGED <<drivers, params, laps, lap, driver_performance,
                   fastest_lap, results>>

UpdateFastestLap ==
    /\ pc = "fastest"
    /\ fastest_lap' = update_fastest_lap(positions, fastest_lap)
    /\ lap' = lap + 1
    /\ pc' = "loop"
    /\ UNCHANGED <<entry_vars, frame>>
    /\ UNCHANGED <<drivers, params, laps, positions, driver_performance,
                   dnf_drivers, results>>

DisplayFinalResults ==
    /\ pc = "loop"
    /\ ~LoopContinues(lap, laps)
    /\ results' = display_final_results(positions, dnf_drivers, fastest_lap)
    /\ pc' = "done"
    /\ UNCHANGED <<entry_vars, frame>>
    /\ UNCHANGED <<drivers, params, laps, lap, positions, driver_performance,
                   dnf_drivers, fastest_lap>>

RaceDriverLists ==
    {SubSeq(create_test_drivers, 1, n) : n \in 0..Len(create_test_drivers)}

RaceLaps == {0, 7, 10, MaxLaps}

Init ==
    /\ drivers \in RaceDriverLists
    /\ params \in [reliability_factor : {100},
                   weather_factor : {5, 12},
                   random_incidents : BOOLEAN]
    /\ laps \in RaceLaps
    /\ (params.random_incidents => laps <= WarmupLaps + MaxIncidentLaps)
    /\ pc = "grid"
    /\ lap = 0
    /\ positions = <<>>
    /\ driver_performance = <<>>
    /\ dnf_drivers = <<>>
    /\ fastest_lap = <<>>
    /\ results = <<>>
    /\ CalledDirectly

Next ==
    \/ InitializeGrid(RaceQualiDraws)
    \/ SetupDriverPerformance
    \/ UpdateRacePositions
    \/ CheckForIncidents
    \/ UpdateFastestLap
    \/ DisplayFinalResults

Spec == Init /\ [][Next]_vars

\* races of at most two drivers
InitShortField ==
    /\ Init
    /\ Len(drivers) <= 2

\* the race is sequential code: whenever a step is possible, one is taken
SpecFair == InitShortField /\ [][Next]_vars /\ WF_vars(Next)

(***************************************************************************)
(* The public functions called in any order on the position list of a      *)
(* grid, as the tests call them: any sequence of update_race_positions,    *)
(* check_for_incidents and update_fastest_lap.                             *)
(***************************************************************************)
CallUpdateRacePositions ==
    /\ pc = "loop"
    /\ \E zs \in SamplesOf(Len(positions), LapDraws),
          us \in SamplesOf(Len(positions), UniformDraws) :
           positions' = update_race_positions(positions, driver_performance,
                                              params, zs, us)
    /\ UNCHANGED <<entry_vars, frame>>
    /\ UNCHANGED <<drivers, params, laps, pc, lap, driver_performance,
                   dnf_drivers, fastest_lap, results>>

CallCheckForIncidents ==
    /\ pc = "loop"
    /\ \E mech \in SamplesOf(Len(positions), UniformDraws),
          inc \in SamplesOf(Len(positions), UniformDraws) :
           LET st == check_for_incidents(drivers, positions, dnf_drivers,
                                         params, mech, inc)
           IN  /\ positions' = st.positions
               /\ dnf_drivers' = st.dnf
    /\ UNCHANGED <<entry_vars, frame>>
    /\ UNCHANGED <<drivers, params, laps, pc, lap, driver_performance,
                   fastest_lap, results>>

CallUpdateFastestLap ==
    /\ pc = "loop"
    /\ fastest_lap' = update_fastest_lap(positions, fastest_lap)
    /\ UNCHANGED <<entry_vars, frame>>
    /\ UNCHANGED <<drivers, params, laps, pc, lap, positions, driver_performance,
                   dnf_drivers, results>>

InitCalls ==
    /\ drivers \in RaceDriverLists
    /\ params \in [reliability_factor : {100},
                   weather_factor : {12},
                   random_incidents : {TRUE}]
    /\ laps = 0
    /\ pc = "grid"
    /\ lap = 0
    /\ positions = <<>>
    /\ driver_performance = <<>>
    /\ dnf_drivers = <<>>
    /\ fastest_lap = <<>>
    /\ results = <<>>
    /\ CalledDirectly

NextCalls ==
    \/ InitializeGrid(RaceQualiDraws)
    \/ SetupDriverPerformance
    \/ CallUpdateRacePositions
    \/ CallCheckForIncidents
    \/ CallUpdateFastestLap

SpecCalls == InitCalls /\ [][NextCalls]_vars

\* C1: after any sequence of update_race_positions and check_for_incidents calls
\* the position list has the length it had at grid time and holds every driver
\* index exactly once.
C1_PositionsArePermutation ==
    pc = "loop" =>
        /\ Len(positions) = Len(drivers)
        /\ \A d \in DriverIndices :
               Cardinality({k \in DOMAIN positions : positions[k].idx = d}) = 1
        /\ \A k \in DOMAIN positions : positions[k].idx \in DriverIndices

C1_Witness ==
    /\ pc = "loop"
    /\ Len(positions) = 3
    /\ positions[1].idx = 2
    /\ positions[3].idx = 0
    /\ ~positions[1].active
    /\ positions[2].active

Retired(d) ==
    \E k \in DOMAIN positions : positions[k].idx = d /\ ~positions[k].active

\* C2: retirement is terminal: an entry whose active flag is false keeps it false
\* over every update_race_positions, check_for_incidents and update_fastest_lap
\* call.
C2_RetirementIsTerminal ==
    [][\A d \in DriverIndices : Retired(d) => Retired(d)']_vars

C2_Witness ==
    /\ pc = "loop"
    /\ Len(positions) = 3
    /\ fastest_lap # <<>>
    /\ Retired(fastest_lap[1].idx)
    /\ positions[1].idx = 1
    /\ positions[1].active
    /\ Len(dnf_drivers) >= 2

\* the points schedule of the specification, by finishing position
PointsSchedule == <<25, 18, 15, 12, 10, 8, 6, 4, 2, 1>>

SchedulePoints(position) ==
    IF position \in DOMAIN PointsSchedule THEN PointsSchedule[position] ELSE 0

\* the scenario of C7: 3 competitors, incidents disabled, 10 laps, run to its end
Scenario3x10Done ==
    /\ pc = "done"
    /\ Len(drivers) = 3
    /\ ~params.random_incidents
    /\ laps = 10

\* C7 as stated: the run produces exactly 3 results, all finished, with positions
\* {1, 2, 3} and points exactly {25, 18, 15}.
C7_PointsExactly251815 ==
    Scenario3x10Done =>
        /\ Len(results) = 3
        /\ \A k \in DOMAIN results : results[k].status = "Finished"
        /\ {results[k].position : k \in DOMAIN results} = {1, 2, 3}
        /\ {results[k].driver : k \in DOMAIN results} = DriverIndices
        /\ \A k \in DOMAIN results :
               results[k].points = SchedulePoints(results[k].position)

\* C7 as amended: the run produces exactly 3 results, all finished, with positions
\* {1, 2, 3}; the points are 25, 18 and 15 by position, and exactly one competitor,
\* the holder of the fastest lap, has one point more.
C7_PointsWithFastestLapBonus ==
    Scenario3x10Done =>
        /\ Len(results) = 3
        /\ \A k \in DOMAIN results : results[k].status = "Finished"
        /\ {results[k].position : k \in DOMAIN results} = {1, 2, 3}
        /\ {results[k].driver : k \in DOMAIN results} = DriverIndices
        /\ fastest_lap # <<>>
        /\ \A k \in DOMAIN results :
               results[k].points =
                   SchedulePoints(results[k].position)
                       + (IF results[k].driver = fastest_lap[1].idx THEN 1 ELSE 0)
        /\ Cardinality({k \in DOMAIN results :
               results[k].points = SchedulePoints(results[k].position) + 1}) = 1

C7_Witness ==
    /\ Scenario3x10Done
    /\ results[1].driver = 2
    /\ results[1].points = 25
    /\ results[3].driver = 0
    /\ results[3].points = 16

\* C10: after any number of update_race_positions calls every entry's stored
\* performance score lies in (0, 1].
C10_StoredScoresInUnitInterval ==
    \A k \in DOMAIN positions :
        /\ 0 < positions[k].perf
        /\ positions[k].perf <= PerfOne

(***************************************************************************)
(* The final classification on its own.  Either the race loop has ended    *)
(* with some order of the list, some set of retired drivers and some       *)
(* holder of the fastest lap, and display_final_results runs; or one run   *)
(* of the prediction (run_single_simulation) is made.                      *)
(***************************************************************************)
ResultFieldSizes == {0, 1, 3, MaxResultDrivers}

Reverse(s) == [k \in 1..Len(s) |-> s[Len(s) + 1 - k]]

\* the list of a race whose entries at the list indices of `out` have retired
WithRetired(order, out) ==
    [k \in 1..Len(order) |-> [order[k] EXCEPT !.active = (k \notin out)]]

InactiveIndices(pos) ==
    SelectSeq([k \in 1..Len(pos) |-> k], LAMBDA k : ~pos[k].active)

InitRaceEnded ==
    /\ \E n \in ResultFieldSizes : drivers = SubSeq(create_current_drivers, 1, n)
    /\ params = [reliability_factor |-> 100, weather_factor |-> 10,
                 random_incidents |-> TRUE]
    /\ pc = "loop"
    /\ LET grid == initialize_driver_positions(drivers, params,
                                               [k \in 1..Len(drivers) |-> 0])
       IN  \E order \in {grid, Reverse(grid)}, out \in SUBSET (1..Len(drivers)) :
               /\ Cardinality(out) <= MaxRetired
               /\ positions = WithRetired(order, out)
               /\ dnf_drivers =
                      LET gone == InactiveIndices(positions)
                      IN  [k \in 1..Len(gone) |-> positions[gone[k]].idx]
    /\ driver_performance =
           [i \in DriverIndices |->
               calculate_driver_base_performance(drivers[i + 1], params)]
    /\ \/ /\ dnf_drivers = <<>>
          /\ laps = 0
          /\ fastest_lap = <<>>
       \/ /\ drivers # <<>>
          /\ laps = WarmupLaps + MaxIncidentLaps
          /\ \E h \in DriverIndices :
                 fastest_lap =
                     <<[idx |-> h,
                        time |-> PerformanceToTime(driver_performance[h], 135)]>>
    /\ lap = laps + 1
    /\ results = <<>>
    /\ CalledDirectly

\* every sample 0, or one driver MaxSigma deviations off
PredictionSamples(n) ==
    {[k \in 1..n |-> 0]}
        \cup {[k \in 1..n |-> IF k = j THEN z ELSE 0] :
                  j \in {1, n} \cap (1..n), z \in {-MaxSigma, MaxSigma}}

InitPrediction ==
    /\ \E n \in ResultFieldSizes : drivers = SubSeq(create_current_drivers, 1, n)
    /\ params = DefaultParameters
    /\ laps = 78
    /\ pc = "predict"
    /\ lap = 0
    /\ positions = <<>>
    /\ driver_performance = <<>>
    /\ dnf_drivers = <<>>
    /\ fastest_lap = <<>>
    /\ results = <<>>
    /\ CalledDirectly

RunSingleSimulation ==
    /\ pc = "predict"
    /\ \E zs \in PredictionSamples(Len(drivers)),
          mech \in {m \in SamplesOf(Len(drivers), UniformDraws) :
                       Len(PredictionDnfs(drivers, params, m)) <= MaxRetired},
          incident_lap \in {laps \div 3, laps - 4},
          incident \in {1, Len(INCIDENTS)} :
           /\ dnf_drivers' = PredictionDnfs(drivers, params, mech)
           /\ results' = run_single_simulation(drivers, laps, params, zs,
                                               dnf_drivers', incident_lap, incident)
    /\ pc' = "predicted"
    /\ UNCHANGED <<entry_vars, frame>>
    /\ UNCHANGED <<drivers, params, laps, lap, positions, driver_performance,
                   fastest_lap>>

InitResults == InitRaceEnded \/ InitPrediction

NextResults ==
    \/ DisplayFinalResults
    \/ RunSingleSimulation

SpecResults == InitResults /\ [][NextResults]_vars

FinishedRows == {k \in DOMAIN results : results[k].status = "Finished"}

\* C4: in the final classification of a race or of a prediction run the
\* finishers are numbered consecutively from 1 by their rank among the
\* non-retired entries, and every retired competitor is ranked after all
\* finishers.
C4_FinishersConsecutiveRetiredLast ==
    pc \in {"done", "predicted"} =>
        /\ \A k \in FinishedRows :
               results[k].position = Cardinality({j \in FinishedRows : j <= k})
        /\ \A k \in DOMAIN results \ FinishedRows :
               \A j \in FinishedRows : j < k

\* the point a row of the race holds for the fastest lap
BonusOf(row) ==
    IF /\ pc = "done"
       /\ fastest_lap # <<>>
       /\ fastest_lap[1].idx = row.driver
       /\ row.position <= 10
    THEN 1 ELSE 0

\* C5: a finisher at position p holds the points of the schedule 25, 18, 15, 12,
\* 10, 8, 6, 4, 2, 1 for p = 1..10 and 0 for p >= 11 (next to the point for the
\* fastest lap), and a retired competitor holds 0 points.
C5_PointsFollowSchedule ==
    pc \in {"done", "predicted"} =>
        \A k \in DOMAIN results :
            IF k \in FinishedRows
            THEN /\ results[k].driver \notin Range(dnf_drivers)
                 /\ results[k].points
                        = SchedulePoints(results[k].position) + BonusOf(results[k])
            ELSE /\ results[k].driver \in Range(dnf_drivers)
                 /\ results[k].points = 0

C5_Witness ==
    /\ pc = "done"
    /\ dnf_drivers # <<>>
    /\ \E k \in FinishedRows : results[k].position = 10 /\ results[k].points = 1
    /\ \E k \in FinishedRows : results[k].position = 11 /\ results[k].points = 0

BonusRows ==
    {k \in DOMAIN results :
        results[k].points > SchedulePoints(results[k].position)}

\* C6: in one race at most one competitor holds a point more than the schedule
\* gives, it is exactly one point, and that competitor is the holder of the
\* fastest lap, has not retired and is at a position <= 10.
C6_AtMostOneFastestLapBonus ==
    pc = "done" =>
        /\ Cardinality(BonusRows) <= 1
        /\ \A k \in BonusRows :
               /\ results[k].points = SchedulePoints(results[k].position) + 1
               /\ fastest_lap # <<>>
               /\ fastest_lap[1].idx = results[k].driver
               /\ results[k].status = "Finished"
               /\ results[k].driver \notin Range(dnf_drivers)
               /\ results[k].position <= 10

\* the holder of the fastest lap finished outside the first ten: nobody has the
\* point, although another driver has retired
C6_Witness ==
    /\ pc = "done"
    /\ dnf_drivers # <<>>
    /\ fastest_lap # <<>>
    /\ \E k \in FinishedRows :
           /\ results[k].driver = fastest_lap[1].idx
           /\ results[k].position = 11
    /\ BonusRows = {}

\* C8: in every RaceResult of a prediction run the time is absent exactly when
\* the competitor retired, and the status is "Finished" exactly when the
\* competitor did not retire.
C8_TimeAbsentIffRetired ==
    pc = "predicted" =>
        \A k \in DOMAIN results :
            /\ (results[k].time = <<>>) <=> (results[k].driver \in Range(dnf_drivers))
            /\ (results[k].status = "Finished")
                   <=> (results[k].driver \notin Range(dnf_drivers))

C8_Witness ==
    /\ pc = "predicted"
    /\ \E k \in DOMAIN results :
           results[k].time = <<>> /\ results[k].status = INCIDENTS[1]
    /\ \E k \in DOMAIN results :
           results[k].time # <<>> /\ results[k].status = "Finished"

(***************************************************************************)
(* The race loop: when the incident model runs.                            *)
(***************************************************************************)
SomeoneRetired ==
    \/ \E k \in DOMAIN positions : ~positions[k].active
    \/ dnf_drivers # <<>>

\* C11: in a race the incident model runs only on laps after the fifth and only
\* when random_incidents is true: no entry is inactive during laps 1 to 5 nor
\* before the incident check of lap 6, and with random_incidents false no entry
\* is ever inactive.
C11_NoRetirementInWarmupOrWithoutIncidents ==
    /\ pc = "incidents" => params.random_incidents /\ lap > WarmupLaps
    /\ SomeoneRetired =>
           /\ params.random_incidents
           /\ lap > WarmupLaps
           /\ lap = WarmupLaps + 1 => pc = "fastest"

\* the first lap after the warm-up has retired a driver
C11_Witness ==
    /\ params.random_incidents
    /\ lap = WarmupLaps + 1
    /\ pc = "fastest"
    /\ Len(positions) = 3
    /\ ~positions[2].active
    /\ dnf_drivers # <<>>

(***************************************************************************)
(* Retirements recorded by check_for_incidents.                            *)
(***************************************************************************)
TimesRetired(d) ==
    Cardinality({k \in DOMAIN dnf_drivers : dnf_drivers[k] = d})

\* C12: a competitor retires at most once: after any sequence of
\* check_for_incidents calls each driver index appears at most once in
\* dnf_drivers, also when the mechanical failure and the racing incident both
\* trigger for the same driver on the same lap.
C12_RetiresAtMostOnce ==
    \A d \in DriverIndices : TimesRetired(d) <= 1

(***************************************************************************)
(* What update_race_positions and update_fastest_lap leave alone.          *)
(***************************************************************************)
AllInactive == \A k \in DOMAIN positions : ~positions[k].active

ActiveDrivers(pos) == {pos[k].idx : k \in {j \in DOMAIN pos : pos[j].active}}

\* C13: update_race_positions leaves every inactive entry unchanged (index,
\* score, time and flag), changes no entry's active flag, and changes nothing on
\* a list whose entries are all inactive; update_fastest_lap on such a list
\* leaves the fastest-lap record unchanged.  Of the calls made on a race in
\* progress only check_for_incidents extends dnf_drivers, so the steps that leave
\* it alone are those of update_race_positions and update_fastest_lap.
C13_InactiveEntriesUntouched ==
    [][ (pc = "loop" /\ dnf_drivers' = dnf_drivers) =>
            /\ Len(positions') = Len(positions)
            /\ \A k \in DOMAIN positions :
                   ~positions[k].active => positions'[k] = positions[k]
            /\ ActiveDrivers(positions') = ActiveDrivers(positions)
            /\ AllInactive => (positions' = positions /\ fastest_lap' = fastest_lap)
      ]_vars

\* the whole field of three has retired, after an overtake and a fastest lap
C13_Witness ==
    /\ pc = "loop"
    /\ Len(positions) = 3
    /\ AllInactive
    /\ positions[1].idx = 2
    /\ fastest_lap # <<>>

(***************************************************************************)
(* A race without competitors.                                             *)
(***************************************************************************)
\* C14: with an empty competitor list the grid is empty, every lap of the race
\* runs with no position change, no retirement and no fastest-lap record, and
\* the race ends after the configured laps with an empty result set.
C14_EmptyFieldRunsToEmptyResults ==
    drivers = <<>> =>
        /\ positions = <<>>
        /\ driver_performance = <<>>
        /\ dnf_drivers = <<>>
        /\ fastest_lap = <<>>
        /\ results = <<>>
        /\ lap <= laps + 1
        /\ pc = "done" => lap = laps + 1

\* a race of more laps than the warm-up, incidents enabled, run to its end
C14_Witness ==
    /\ drivers = <<>>
    /\ params.random_incidents
    /\ laps > WarmupLaps
    /\ pc = "done"
    /\ lap = laps + 1
    /\ results = <<>>

(***************************************************************************)
(* Termination of a race.                                                  *)
(***************************************************************************)
Racing == pc \in {"loop", "incidents", "fastest"}

Complete == pc = "done"

\* C15: every race runs exactly the configured laps (the lap counter goes from 1
\* to laps while the race is on and never further), then is complete for good,
\* with a result row for every competitor.
C15_RaceRunsItsLapsAndCompletes ==
    /\ [](Racing => (lap >= 1 /\ lap <= laps + 1))
    /\ [](pc \in {"incidents", "fastest"} => lap <= laps)
    /\ [](Complete => (lap = laps + 1
                         /\ {results[k].driver : k \in DOMAIN results}
                                = DriverIndices))
    /\ [][Racing => (lap' = lap \/ (pc = "fastest" /\ lap' = lap + 1))]_vars
    /\ [][Complete => UNCHANGED vars]_vars
    /\ <>[]Complete

C15_Witness ==
    /\ Complete
    /\ laps = 10
    /\ lap = laps + 1
    /\ Len(results) = 2

(***************************************************************************)
(* The entry points simulation::simulate and prediction::simulate, up to   *)
(* the start of the race loop and of the run loop.                         *)
(***************************************************************************)
\* gp.to_lowercase().replace(" ", "-").replace("grand prix", "").replace("gp", "")
\* .trim() for the names given on the command line below; the blanks are gone
\* before "grand prix" is looked for, so that phrase is never found
CleanGpName(gp) ==
    CASE gp = "Monaco" -> "monaco"
      [] gp = "Monaco GP" -> "monaco-"
      [] gp = "Spanish" -> "spanish"
      [] gp = "abu dhabi" -> "abu-dhabi"
      [] gp = "Las Vegas" -> "las-vegas"
      [] gp = "italian grand prix" -> "italian-grand-prix"
      [] gp = "GP" -> ""
      [] OTHER -> gp    \* lower case already, without blank and without "gp"

normalize_gp_name(gp) ==
    LET normalized == CleanGpName(gp)
    IN  CASE normalized = "monaco" -> "monaco"
          [] normalized \in {"monza", "italian"} -> "monza"
          [] normalized \in {"spa", "belgian"} -> "spa"
          [] normalized \in {"silverstone", "british"} -> "silverstone"
          [] normalized \in {"barcelona", "spanish", "spain"} -> "catalunya"
          [] normalized \in {"melbourne", "australia", "australian"} -> "albert_park"
          [] normalized \in {"montreal", "canada", "canadian"} -> "villeneuve"
          [] normalized \in {"baku", "azerbaijan"} -> "baku"
          [] normalized \in {"hungaroring", "hungary", "hungarian"} -> "hungaroring"
          [] normalized \in {"suzuka", "japan", "japanese"} -> "suzuka"
          [] normalized = "singapore" -> "marina_bay"
          [] normalized \in {"austin", "usa", "us"} -> "americas"
          [] normalized \in {"mexico", "mexican"} -> "rodriguez"
          [] normalized \in {"brazil", "brazilian", "interlagos"} -> "interlagos"
          [] normalized \in {"abu-dhabi", "abu dhabi", "abudhabi"} -> "yas_marina"
          [] normalized = "bahrain" -> "bahrain"
          [] normalized \in {"jeddah", "saudi", "saudi arabia", "saudi-arabia"}
                 -> "jeddah"
          [] normalized \in {"imola", "emilia romagna"} -> "imola"
          [] normalized = "miami" -> "miami"
          [] normalized \in {"zandvoort", "dutch", "netherlands"} -> "zandvoort"
          [] normalized \in {"las-vegas", "las vegas", "vegas"} -> "las_vegas"
          [] normalized \in {"qatar", "losail"} -> "losail"
          [] OTHER -> normalized

\* the laps of the match of create_circuit_for_gp: <<laps>>, or <<>> for `_`
CircuitLaps(normalized_gp) ==
    CASE normalized_gp = "monaco" -> <<78>>
      [] normalized_gp \in {"monza", "italian"} -> <<53>>
      [] normalized_gp \in {"spa", "belgian"} -> <<44>>
      [] normalized_gp \in {"silverstone", "british"} -> <<52>>
      [] normalized_gp \in {"catalunya", "spanish"} -> <<66>>
      [] normalized_gp \in {"albert_park", "australian"} -> <<58>>
      [] normalized_gp \in {"villeneuve", "canadian"} -> <<70>>
      [] normalized_gp \in {"baku", "azerbaijan"} -> <<51>>
      [] normalized_gp \in {"hungaroring", "hungarian"} -> <<70>>
      [] normalized_gp \in {"suzuka", "japanese"} -> <<53>>
      [] normalized_gp \in {"marina_bay", "singapore"} -> <<61>>
      [] normalized_gp \in {"americas", "us"} -> <<56>>
      [] normalized_gp \in {"rodriguez", "mexican"} -> <<71>>
      [] normalized_gp \in {"interlagos", "brazilian"} -> <<71>>
      [] normalized_gp \in {"yas_marina", "abu_dhabi"} -> <<55>>
      [] normalized_gp = "bahrain" -> <<57>>
      [] normalized_gp \in {"jeddah", "saudi"} -> <<50>>
      [] normalized_gp = "imola" -> <<63>>
      [] normalized_gp = "miami" -> <<57>>
      [] normalized_gp \in {"zandvoort", "dutch"} -> <<72>>
      [] normalized_gp = "las_vegas" -> <<50>>
      [] normalized_gp \in {"losail", "qatar"} -> <<57>>
      [] OTHER -> <<>>

\* a mutation of create_circuit_for_gp: an unknown name gets a default circuit
CreateCircuitWithDefault(gp) ==
    LET normalized_gp == normalize_gp_name(gp)
        found == CircuitLaps(normalized_gp)
    IN  IF found = <<>>
        THEN <<"Ok", [id |-> normalized_gp, laps |-> 50]>>
        ELSE <<"Ok", [id |-> normalized_gp, laps |-> found[1]]>>

\* Result<Circuit>: <<"Ok", circuit>> or <<"Err", message, gp>>
create_circuit_for_gp(gp) ==
    LET normalized_gp == normalize_gp_name(gp)
        found == CircuitLaps(normalized_gp)
    IN  IF found = <<>>
        THEN <<"Err", "Unknown GP", gp>>
        ELSE <<"Ok", [id |-> normalized_gp, laps |-> found[1]]>>

\* the names given for the GP
GpInputs ==
    {"monaco", "Monaco", "Monaco GP", "belgian", "Spanish", "abu dhabi",
     "Las Vegas", "italian grand prix", "singapore", "GP", "atlantis", ""}

\* the five HashMaps of prediction::simulate, keyed by the driver's name
EmptyStats ==
    [position_counts |-> <<>>, dnf_counts |-> <<>>, points_totals |-> <<>>,
     win_count |-> <<>>, podium_count |-> <<>>]

\* simulation::simulate up to the call of simulate_interactive_race or
\* simulate_instant_race
Simulate ==
    /\ pc = "entry"
    /\ call.entry = "simulate"
    /\ LET circuit == create_circuit_for_gp(call.gp)
       IN  IF circuit[1] = "Err"
           THEN /\ outcome' = circuit
                /\ pc' = "returned"
                /\ UNCHANGED <<drivers, laps>>
           ELSE /\ drivers' = create_current_drivers
                /\ laps' = circuit[2].laps
                /\ pc' = "grid"
                /\ UNCHANGED outcome
    /\ UNCHANGED <<params, lap, positions, driver_performance, dnf_drivers,
                   fastest_lap, results, call, stats, history, loads, frame>>

\* prediction::simulate up to the loop over the runs
Predict ==
    /\ pc = "entry"
    /\ call.entry = "predict"
    /\ LET circuit == create_circuit_for_gp(call.gp)
       IN  IF circuit[1] = "Err"
           THEN /\ outcome' = circuit
                /\ pc' = "returned"
                /\ UNCHANGED <<drivers, laps, params, stats>>
           ELSE /\ drivers' = create_current_drivers
                /\ laps' = circuit[2].laps
                /\ params' = DefaultParameters
                /\ stats' = EmptyStats
                /\ pc' = "runs"
                /\ UNCHANGED outcome
    /\ UNCHANGED <<lap, positions, driver_performance, dnf_drivers,
                   fastest_lap, results, call, history, loads, frame>>

\* the parameters main builds from --reliability, --weather and --no-incidents
EntryParameters ==
    [reliability_factor : {-100, 0, 95, 100},
     weather_factor : {-5, 0, 5, 10},
     random_incidents : BOOLEAN]

InitEntry ==
    /\ \/ /\ call \in [entry : {"simulate"}, gp : GpInputs, interactive : BOOLEAN,
                       runs : {0}, session : {""}]
          /\ params \in EntryParameters
       \/ /\ call \in [entry : {"predict"}, gp : GpInputs, interactive : {FALSE},
                       runs : 0..MaxRuns, session : {""}]
          /\ params = DefaultParameters
    /\ drivers = <<>>
    /\ laps = 0
    /\ pc = "entry"
    /\ lap = 0
    /\ positions = <<>>
    /\ driver_performance = <<>>
    /\ dnf_drivers = <<>>
    /\ fastest_lap = <<>>
    /\ results = <<>>
    /\ outcome = <<>>
    /\ stats = <<>>
    /\ history = <<>>
    /\ loads = <<>>
    /\ frame = <<>>

NextEntry ==
    \/ Simulate
    \/ Predict
    \/ InitializeGrid(RaceQualiDraws)
    \/ SetupDriverPerformance

SpecEntry == InitEntry /\ [][NextEntry]_vars

InvalidParameters ==
    params.reliability_factor <= 0 \/ params.weather_factor <= 0

\* C16: a reliability_factor or weather_factor that is zero or negative makes
\* simulate return an error before the run starts: no grid is initialized and no
\* lap is run.
C16_InvalidFactorsRejected ==
    (call.entry = "simulate" /\ InvalidParameters) =>
        /\ pc \in {"entry", "returned"}
        /\ pc = "returned" => outcome # <<>> /\ outcome[1] = "Err"
        /\ positions = <<>>
        /\ driver_performance = <<>>
        /\ lap = 0

\* C17: for a GP name that matches no known circuit create_circuit_for_gp
\* returns an error, and simulation::simulate and prediction::simulate return
\* that error before a grid is initialized and before any lap or run is made.
C17_UnknownGpFailsBeforeAnyWork ==
    (call.entry \in {"simulate", "predict"}
        /\ CircuitLaps(normalize_gp_name(call.gp)) = <<>>) =>
        /\ create_circuit_for_gp(call.gp) = <<"Err", "Unknown GP", call.gp>>
        /\ pc \in {"entry", "returned"}
        /\ pc = "returned" => outcome = create_circuit_for_gp(call.gp)
        /\ drivers = <<>>
        /\ positions = <<>>
        /\ driver_performance = <<>>
        /\ lap = 0
        /\ stats = <<>>
        /\ history = <<>>
        /\ results = <<>>

\* "Monaco GP" cleans to "monaco-", which is no circuit: the prediction returns
\* the error
C17_Witness ==
    /\ call.entry = "predict"
    /\ call.gp = "Monaco GP"
    /\ call.runs = MaxRuns
    /\ pc = "returned"
    /\ outcome = <<"Err", "Unknown GP", "Monaco GP">>

(***************************************************************************)
(* The aggregation loop of prediction::simulate.                           *)
(***************************************************************************)
\* a mutation of Bump: the entry is overwritten, not added to
BumpOverwriting(map, key, by) ==
    [x \in DOMAIN map \cup {key} |-> IF x = key THEN by ELSE map[x]]

\* *map.entry(key).or_insert(0) += by
Bump(map, key, by) ==
    [x \in DOMAIN map \cup {key} |->
        IF x = key
        THEN (IF key \in DOMAIN map THEN map[key] ELSE 0) + by
        ELSE map[x]]

\* map.get(key).unwrap_or(&0)
GetOrZero(map, key) == IF key \in DOMAIN map THEN map[key] ELSE 0

\* a mutation of IsPodium: the third place does not count
IsPodiumTopTwo(position) ==
    position <= 2

\* if result.position <= 3
IsPodium(position) ==
    position <= 3

\* the body of `for result in &race_results`
AggregateResult(ds, st, result) ==
    LET driver_name == ds[result.driver + 1].name
    IN  [position_counts |->
             [x \in DOMAIN st.position_counts \cup {driver_name} |->
                 IF x = driver_name
                 THEN Bump(IF driver_name \in DOMAIN st.position_counts
                           THEN st.position_counts[driver_name] ELSE <<>>,
                           result.position, 1)
                 ELSE st.position_counts[x]],
         dnf_counts |->
             IF result.status # "Finished"
             THEN Bump(st.dnf_counts, driver_name, 1) ELSE st.dnf_counts,
         points_totals |-> Bump(st.points_totals, driver_name, result.points),
         win_count |->
             IF result.position = 1
             THEN Bump(st.win_count, driver_name, 1) ELSE st.win_count,
         podium_count |->
             IF IsPodium(result.position)
             THEN Bump(st.podium_count, driver_name, 1) ELSE st.podium_count]

\* the rows of one run, from row k on
RECURSIVE AggregateFrom(_, _, _, _)
AggregateFrom(ds, st, race_results, k) ==
    IF k > Len(race_results) THEN st
    ELSE AggregateFrom(ds, AggregateResult(ds, st, race_results[k]),
                       race_results, k + 1)

\* the loop `for _ in 0..runs` over the result lists of `runs_made`, from run r on
RECURSIVE AggregateRuns(_, _, _, _)
AggregateRuns(ds, st, runs_made, r) ==
    IF r > Len(runs_made) THEN st
    ELSE AggregateRuns(ds, AggregateFrom(ds, st, runs_made[r], 1), runs_made, r + 1)
\* the row of driver_stats: totals and the number of runs they are divided by
DriverStats(ds, st, runs, i) ==
    LET name == ds[i].name
    IN  [name |-> name,
         points_total |-> GetOrZero(st.points_totals, name),
         wins |-> GetOrZero(st.win_count, name),
         podiums |-> GetOrZero(st.podium_count, name),
         runs |-> runs]

\* driver_stats.sort_by(|a, b| b.1.partial_cmp(&a.1).unwrap()): stable, by the
\* average points, highest first; all rows have the same number of runs
InsertByPoints(sorted, e) ==
    LET k == Cardinality({j \in DOMAIN sorted :
                             sorted[j].points_total >= e.points_total})
    IN  SubSeq(sorted, 1, k) \o <<e>> \o SubSeq(sorted, k + 1, Len(sorted))

RECURSIVE SortByPoints(_)
SortByPoints(rows) ==
    IF rows = <<>> THEN <<>>
    ELSE InsertByPoints(SortByPoints(SubSeq(rows, 1, Len(rows) - 1)), rows[Len(rows)])

\* every sample 0, or the first driver MaxSigma deviations slow
AggregationSamples(n) ==
    {[k \in 1..n |-> 0], [k \in 1..n |-> IF k = 1 THEN -MaxSigma ELSE 0]}

\* the uniform draws of the mechanical failures: nobody fails, or the first or
\* the last driver does
AggregationFailures(n) ==
    {[k \in 1..n |-> IF k = j THEN 0 ELSE 9999] : j \in {0, 1, n}}

\* one pass of `for _ in 0..runs`: a run and the aggregation of its results
PredictionRun ==
    /\ pc = "runs"
    /\ Len(history) < call.runs
    /\ \E zs \in AggregationSamples(Len(drivers)),
          mech \in AggregationFailures(Len(drivers)) :
           LET dnf == PredictionDnfs(drivers, params, mech)
               race_results == run_single_simulation(drivers, laps, params, zs, dnf,
                                                     laps \div 3, 1)
           IN  /\ stats' = AggregateFrom(drivers, stats, race_results, 1)
               /\ history' = Append(history, race_results)
    /\ UNCHANGED <<drivers, params, laps, pc, lap, positions, driver_performance,
                   dnf_drivers, fastest_lap, results, call, outcome, loads, frame>>

\* after the loop: driver_stats, its sort and Ok(()).  With runs = 0 every
\* average is 0.0 / 0.0 = NaN and the comparison of two rows panics.
FinishPrediction ==
    /\ pc = "runs"
    /\ Len(history) = call.runs
    /\ IF call.runs = 0 /\ Len(drivers) >= 2
       THEN /\ outcome' = <<"Panic", "partial_cmp of NaN is None">>
            /\ UNCHANGED results
       ELSE /\ results' = SortByPoints([i \in 1..Len(drivers) |->
                                           DriverStats(drivers, stats, call.runs, i)])
            /\ outcome' = <<"Ok">>
    /\ pc' = "returned"
    /\ UNCHANGED <<drivers, params, laps, lap, positions, driver_performance,
                   dnf_drivers, fastest_lap, call, stats, history, loads, frame>>

\* the state of prediction::simulate before its loop, for a short driver list
InitAggregation ==
    /\ call \in [entry : {"predict"}, gp : {"monaco"}, interactive : {FALSE},
                 runs : 0..MaxRuns, session : {""}]
    /\ \E n \in {1, MaxAggDrivers} : drivers = SubSeq(create_current_drivers, 1, n)
    /\ params = DefaultParameters
    /\ laps = create_circuit_for_gp(call.gp)[2].laps
    /\ stats = EmptyStats
    /\ history = <<>>
    /\ pc = "runs"
    /\ lap = 0
    /\ positions = <<>>
    /\ driver_performance = <<>>
    /\ dnf_drivers = <<>>
    /\ fastest_lap = <<>>
    /\ results = <<>>
    /\ outcome = <<>>
    /\ loads = <<>>
    /\ frame = <<>>

NextAggregation ==
    \/ PredictionRun
    \/ FinishPrediction

SpecAggregation == InitAggregation /\ [][NextAggregation]_vars

RECURSIVE SumOver(_, _)
SumOver(f, S) ==
    IF S = {} THEN 0
    ELSE LET x == CHOOSE y \in S : TRUE
         IN  f[x] + SumOver(f, S \ {x})

\* the RaceResult of the driver called `name` in the result list of one run
RowOf(race_results, name) ==
    race_results[CHOOSE k \in DOMAIN race_results :
                     drivers[race_results[k].driver + 1].name = name]

RunsMade == 1..Len(history)

DriverNames == {drivers[i].name : i \in DOMAIN drivers}

\* C18: after k runs of the aggregation loop, for every competitor the position
\* histogram counts the runs per position and sums to k, the DNF count is the
\* number of runs with a status other than "Finished", the win count the number
\* of runs at position 1, the podium count the number of runs at a position
\* <= 3 (so wins <= podiums <= k), and the points total the sum of its points.
C18_AggregatesCountTheRuns ==
    \A name \in DriverNames :
        LET histogram == IF name \in DOMAIN stats.position_counts
                         THEN stats.position_counts[name] ELSE <<>>
            row(r) == RowOf(history[r], name)
        IN  /\ \A p \in DOMAIN histogram :
                   histogram[p] = Cardinality({r \in RunsMade : row(r).position = p})
            /\ \A r \in RunsMade : row(r).position \in DOMAIN histogram
            /\ SumOver(histogram, DOMAIN histogram) = Len(history)
            /\ GetOrZero(stats.dnf_counts, name)
                   = Cardinality({r \in RunsMade : row(r).status # "Finished"})
            /\ GetOrZero(stats.win_count, name)
                   = Cardinality({r \in RunsMade : row(r).position = 1})
            /\ GetOrZero(stats.podium_count, name)
                   = Cardinality({r \in RunsMade : row(r).position <= 3})
            /\ GetOrZero(stats.win_count, name) <= GetOrZero(stats.podium_count, name)
            /\ GetOrZero(stats.podium_count, name) <= Len(history)
            /\ GetOrZero(stats.points_totals, name)
                   = SumOver([r \in RunsMade |-> row(r).points], RunsMade)

\* three runs: the first driver has won twice, once of them retired, and was
\* off the podium once
C18_Witness ==
    /\ Len(drivers) = MaxAggDrivers
    /\ Len(history) = 3
    /\ GetOrZero(stats.win_count, "Max Verstappen") = 2
    /\ GetOrZero(stats.podium_count, "Max Verstappen") = 2
    /\ GetOrZero(stats.dnf_counts, "Max Verstappen") = 1
    /\ GetOrZero(stats.points_totals, "Max Verstappen") = 25 + 12
    /\ pc = "returned"
    /\ outcome = <<"Ok">>

\* the orders in which the runs made so far can be folded
RunOrders ==
    {f \in [RunsMade -> RunsMade] : \A i, j \in RunsMade : f[i] = f[j] => i = j}

\* the result lists of the runs in S, in the order they were made
Batch(S) ==
    LET picked == SelectSeq([r \in RunsMade |-> r], LAMBDA r : r \in S)
    IN  [i \in DOMAIN picked |-> history[picked[i]]]

\* the aggregation loop run over the result lists `runs_made`
FoldRuns(runs_made) == AggregateRuns(drivers, EmptyStats, runs_made, 1)

\* the merge of two aggregates: the sum per key (a reduction the specification
\* describes; prediction::simulate itself only folds serially)
MergeCounts(a, b) ==
    [x \in DOMAIN a \cup DOMAIN b |-> GetOrZero(a, x) + GetOrZero(b, x)]

MergeStats(a, b) ==
    [position_counts |->
         [x \in DOMAIN a.position_counts \cup DOMAIN b.position_counts |->
             MergeCounts(IF x \in DOMAIN a.position_counts
                         THEN a.position_counts[x] ELSE <<>>,
                         IF x \in DOMAIN b.position_counts
                         THEN b.position_counts[x] ELSE <<>>)],
     dnf_counts |-> MergeCounts(a.dnf_counts, b.dnf_counts),
     points_totals |-> MergeCounts(a.points_totals, b.points_totals),
     win_count |-> MergeCounts(a.win_count, b.win_count),
     podium_count |-> MergeCounts(a.podium_count, b.podium_count)]

\* driver_stats as derived from an aggregate
DerivedStats(st) ==
    SortByPoints([i \in 1..Len(drivers) |-> DriverStats(drivers, st, call.runs, i)])

\* C19: aggregation does not depend on the order of the runs: folding the
\* result lists of the runs made in any order gives the same histogram, counts,
\* points totals and derived driver_stats, and aggregating two disjoint batches
\* of the runs and merging them gives the same as aggregating all runs.
C19_AggregationOrderIndependent ==
    /\ \A f \in RunOrders :
           LET folded == FoldRuns([i \in RunsMade |-> history[f[i]]])
           IN  /\ folded = stats
               /\ (pc = "returned" /\ outcome = <<"Ok">>) =>
                      results = DerivedStats(folded)
    /\ \A S \in SUBSET RunsMade :
           MergeStats(FoldRuns(Batch(S)), FoldRuns(Batch(RunsMade \ S))) = stats

\* three runs with different winners and a retirement have been aggregated
C19_Witness ==
    /\ Len(drivers) = MaxAggDrivers
    /\ Len(history) = 3
    /\ history[1] # history[2]
    /\ history[2] # history[3]
    /\ history[1] # history[3]
    /\ history[1][1].driver # history[2][1].driver
    /\ DOMAIN stats.dnf_counts # {}
    /\ pc = "returned"
    /\ outcome = <<"Ok">>
    /\ results[1].name # "Max Verstappen"

(***************************************************************************)
(* historical::simulate_with_data_module: the dispatch on the session.     *)
(***************************************************************************)
\* the session names given
SessionInputs ==
    {"race", "Race", "RACE", "qualifying", "Qualifying", "practice", "fp1", "FP1",
     "practice1", "fp2", "Practice2", "fp3", "FP3", "practice3",
     "invalid_session", "sprint", "fp4", ""}

\* a mutation of ToLowercase: the session is compared as given
SessionAsGiven(session) ==
    session

\* session.to_lowercase(), for the names above
ToLowercase(session) ==
    CASE session \in {"Race", "RACE"} -> "race"
      [] session = "Qualifying" -> "qualifying"
      [] session = "FP1" -> "fp1"
      [] session = "Practice2" -> "practice2"
      [] session = "FP3" -> "fp3"
      [] OTHER -> session    \* lower case already

\* what the DataInterface given to the call returns from its three loaders
HistoricalRows ==
    << [position |-> 1, driver |-> 0, status |-> "Finished"],
       [position |-> 2, driver |-> 1, status |-> "Engine"] >>

DataModules ==
    [load_race_data : {<<"Err", "Race data not found">>, <<"Ok", <<>>>>,
                       <<"Ok", HistoricalRows>>},
     load_qualifying_data : {<<"Err", "Qualifying data not found">>, <<"Ok">>},
     load_practice_data : {<<"Err", "Practice data not found">>, <<"Ok">>}]

\* the record of one call of a loader
LoaderCall(loader, practice_number) ==
    [loader |-> loader, gp |-> call.gp, practice_number |-> practice_number]

\* simulate_race up to the replay or the print of the results
SimulateRace ==
    LET race == call.data_module.load_race_data
    IN  /\ loads' = Append(loads, LoaderCall("load_race_data", 0))
        /\ IF race[1] = "Err"
           THEN /\ outcome' = race
                /\ pc' = "returned"
                /\ UNCHANGED results
           ELSE /\ results' = race[2]
                /\ IF call.interactive
                   THEN pc' = "replay" /\ UNCHANGED outcome
                   ELSE pc' = "returned" /\ outcome' = <<"Ok">>

SimulateQualifying ==
    /\ loads' = Append(loads, LoaderCall("load_qualifying_data", 0))
    /\ outcome' = call.data_module.load_qualifying_data
    /\ pc' = "returned"
    /\ UNCHANGED results

SimulatePractice(practice_number) ==
    /\ loads' = Append(loads, LoaderCall("load_practice_data", practice_number))
    /\ outcome' = call.data_module.load_practice_data
    /\ pc' = "returned"
    /\ UNCHANGED results

SimulateWithDataModule ==
    /\ pc = "entry"
    /\ call.entry = "historical"
    /\ LET session == ToLowercase(call.session)
       IN  CASE session = "race" -> SimulateRace
             [] session = "qualifying" -> SimulateQualifying
             [] session \in {"practice", "fp1", "practice1"} -> SimulatePractice(1)
             [] session \in {"fp2", "practice2"} -> SimulatePractice(2)
             [] session \in {"fp3", "practice3"} -> SimulatePractice(3)
             [] OTHER -> /\ outcome' = <<"Err", "Unknown session type", call.session>>
                         /\ pc' = "returned"
                         /\ UNCHANGED <<loads, results>>
    /\ UNCHANGED <<drivers, params, laps, lap, positions, driver_performance,
                   dnf_drivers, fastest_lap, call, stats, history, frame>>

\* the panic of `for i in 0..positions.len() - 1` on an empty list: the
\* subtraction overflows where overflow checks are compiled in, and wraps to
\* usize::MAX where they are not, so that positions[0] is out of range
EmptyOrderPanics ==
    {<<"Panic", "attempt to subtract with overflow">>,
     <<"Panic", "index out of bounds: the len is 0 but the index is 0">>}

\* simulate_interactive_historical_race, by its end: Ok(()), or the panic of
\* update_positions_for_lap on `positions.len() - 1` with no result row
ReplayHistoricalRace ==
    /\ pc = "replay"
    /\ IF results = <<>>
       THEN outcome' \in EmptyOrderPanics
       ELSE outcome' = <<"Ok">>
    /\ pc' = "returned"
    /\ UNCHANGED <<drivers, params, laps, lap, positions, driver_performance,
                   dnf_drivers, fastest_lap, results, call, stats, history, loads, frame>>

InitHistorical ==
    /\ call \in [entry : {"historical"}, gp : {"monza", "nonexistent_gp"},
                 interactive : BOOLEAN, runs : {0}, session : SessionInputs,
                 data_module : DataModules]
    /\ drivers = <<>>
    /\ params = DefaultParameters
    /\ laps = 0
    /\ pc = "entry"
    /\ lap = 0
    /\ positions = <<>>
    /\ driver_performance = <<>>
    /\ dnf_drivers = <<>>
    /\ fastest_lap = <<>>
    /\ results = <<>>
    /\ outcome = <<>>
    /\ stats = <<>>
    /\ history = <<>>
    /\ loads = <<>>
    /\ frame = <<>>

NextHistorical ==
    \/ SimulateWithDataModule
    \/ ReplayHistoricalRace

SpecHistorical == InitHistorical /\ [][NextHistorical]_vars

\* the session name without regard to case, for the names given
CaseFolded(session) ==
    CASE session \in {"race", "Race", "RACE"} -> "race"
      [] session \in {"qualifying", "Qualifying"} -> "qualifying"
      [] session \in {"fp1", "FP1"} -> "fp1"
      [] session \in {"fp3", "FP3"} -> "fp3"
      [] session = "Practice2" -> "practice2"
      [] OTHER -> session

\* the sessions that are named, and the loader each of them stands for
NamedSessions ==
    {"race", "qualifying", "practice", "fp1", "practice1", "fp2", "practice2",
     "fp3", "practice3"}

ExpectedLoad(session) ==
    CASE session = "race" -> LoaderCall("load_race_data", 0)
      [] session = "qualifying" -> LoaderCall("load_qualifying_data", 0)
      [] session \in {"practice", "fp1", "practice1"} -> LoaderCall("load_practice_data", 1)
      [] session \in {"fp2", "practice2"} -> LoaderCall("load_practice_data", 2)
      [] session \in {"fp3", "practice3"} -> LoaderCall("load_practice_data", 3)

\* C20: simulate_with_data_module returns an error in exactly two cases.  A
\* session that, lower-cased, is none of race, qualifying, practice, fp1,
\* practice1, fp2, practice2, fp3, practice3 gives the error 'Unknown session
\* type' naming the session, and no loader is invoked.  Otherwise exactly one
\* loader, the one of the session, is invoked exactly once, and the call returns
\* an error exactly when that loader did, the loader's own.
C20_SessionDispatch ==
    LET session == CaseFolded(call.session)
    IN  /\ pc = "entry" => loads = <<>>
        /\ pc \in {"replay", "returned"} =>
               IF session \notin NamedSessions
               THEN /\ loads = <<>>
                    /\ outcome = <<"Err", "Unknown session type", call.session>>
               ELSE /\ loads = <<ExpectedLoad(session)>>
                    /\ LET returned == call.data_module[loads[1].loader]
                       IN  IF returned[1] = "Err"
                           THEN outcome = returned
                           ELSE outcome = <<>> \/ outcome[1] # "Err"

\* "FP3" has loaded the third practice, whose loader failed
C20_Witness ==
    /\ pc = "returned"
    /\ call.session = "FP3"
    /\ loads = <<[loader |-> "load_practice_data", gp |-> "monza",
                  practice_number |-> 3]>>
    /\ outcome = <<"Err", "Practice data not found">>


(***************************************************************************)
(* The order list around a retired entry.                                  *)
(***************************************************************************)
\* the list index of driver d
IndexIn(pos, d) == CHOOSE k \in DOMAIN pos : pos[k].idx = d

\* the drivers listed ahead of driver d
AheadOf(pos, d) == {pos[j].idx : j \in 1..(IndexIn(pos, d) - 1)}

\* C21: a retired entry is frozen in the order list: every step of the race
\* after its retirement leaves it at the same list index and leaves the set of
\* drivers listed ahead of it the same, so no active entry moves across it.
C21_RetiredEntryFrozen ==
    [][\A d \in DriverIndices :
           Retired(d) =>
               /\ IndexIn(positions', d) = IndexIn(positions, d)
               /\ AheadOf(positions', d) = AheadOf(positions, d)]_vars

\* a race that ended with the retired driver still in the middle of the list,
\* between two drivers who finished
C21_Witness ==
    /\ pc = "done"
    /\ Len(positions) = 3
    /\ ~positions[2].active
    /\ positions[1].active
    /\ positions[3].active
    /\ laps = WarmupLaps + MaxIncidentLaps


(***************************************************************************)
(* The race with update_race_positions run one loop iteration at a time.   *)
(*   pc = "update"   inside `for i in 0..positions.len()`                  *)
(* frame holds the loop variable i, the list as it was when the call       *)
(* began (start) and the draws made so far: zs[k] and us[k] are the Normal *)
(* and the uniform draw of iteration k, 0 where the iteration drew none.   *)
(***************************************************************************)
EnterUpdateRacePositions ==
    /\ pc = "loop"
    /\ LoopContinues(lap, laps)
    /\ frame' = [i |-> 0, start |-> positions, zs |-> <<>>, us |-> <<>>]
    /\ pc' = "update"
    /\ UNCHANGED entry_vars
    /\ UNCHANGED <<drivers, params, laps, lap, positions, driver_performance,
                   dnf_drivers, fastest_lap, results>>

\* a mutation of OvertakeAttempted: the entry ahead may have retired
OvertakeAttemptedAnyPair(pos, k) ==
    /\ k > 1
    /\ pos[k].active

\* if i > 0 && positions[i].3 && positions[i-1].3, for the list index k = i + 1
OvertakeAttempted(pos, k) ==
    /\ k > 1
    /\ pos[k].active
    /\ pos[k - 1].active

\* the frame after an iteration that drew z and u
Advance(f, z, u) ==
    [f EXCEPT !.i = @ + 1, !.zs = Append(@, z), !.us = Append(@, u)]

\* one iteration of the loop, lines 241-263, for the list index k = i + 1
UpdateIteration ==
    /\ pc = "update"
    /\ frame.i < Len(positions)
    /\ LET k == frame.i + 1
       IN  IF ~positions[k].active
           THEN /\ positions' = positions
                /\ frame' = Advance(frame, 0, 0)
           ELSE \E z \in LapDraws :
                    LET base_perf ==
                            BasePerformanceOf(driver_performance, positions[k].idx)
                        resampled ==
                            [positions EXCEPT
                                 ![k].perf = LapPerformance(base_perf, params, z)]
                    IN  IF /\ OvertakeAttempted(resampled, k)
                           /\ resampled[k].perf - resampled[k - 1].perf > 0
                        THEN \E u \in UniformDraws :
                                 /\ positions' =
                                        IF OvertakeSucceeds(
                                               resampled[k].perf
                                                   - resampled[k - 1].perf, u)
                                        THEN Swap(resampled, k, k - 1)
                                        ELSE resampled
                                 /\ frame' = Advance(frame, z, u)
                        ELSE /\ positions' = resampled
                             /\ frame' = Advance(frame, z, 0)
    /\ UNCHANGED entry_vars
    /\ UNCHANGED <<drivers, params, laps, pc, lap, driver_performance,
                   dnf_drivers, fastest_lap, results>>

LeaveUpdateRacePositions ==
    /\ pc = "update"
    /\ frame.i >= Len(positions)
    /\ frame' = <<>>
    /\ pc' = IF IncidentsDue(params, lap) THEN "incidents" ELSE "fastest"
    /\ UNCHANGED entry_vars
    /\ UNCHANGED <<drivers, params, laps, lap, positions, driver_performance,
                   dnf_drivers, fastest_lap, results>>

\* races of at most WarmupLaps + MaxIncidentLaps laps
InitPass ==
    /\ Init
    /\ laps <= WarmupLaps + MaxIncidentLaps

NextPass ==
    \/ InitializeGrid(RaceQualiDraws)
    \/ SetupDriverPerformance
    \/ EnterUpdateRacePositions
    \/ UpdateIteration
    \/ LeaveUpdateRacePositions
    \/ CheckForIncidents
    \/ UpdateFastestLap
    \/ DisplayFinalResults

SpecPass == InitPass /\ [][NextPass]_vars


\* an iteration of the loop of update_race_positions
InPass == pc = "update" /\ pc' = "update"

\* C22: within one update_race_positions call the adjacent pairs are examined in
\* a single front-to-back pass: each iteration moves the loop index on by one
\* and touches only the pair (i-1, i); the pair is swapped only when both
\* entries are active and the entry at i has the strictly higher current score;
\* the call ends when the index reaches the end of the list, and the next call
\* is made in the next lap.
C22_SinglePassAdjacentSwaps ==
    /\ [][InPass =>
            LET k == frame.i + 1
            IN  /\ frame'.i = frame.i + 1
                /\ \A j \in DOMAIN positions :
                       j \notin {k - 1, k} => positions'[j] = positions[j]
                /\ positions'[k].idx # positions[k].idx =>
                       /\ k > 1
                       /\ positions[k].active
                       /\ positions[k - 1].active
                       /\ positions'[k] = positions[k - 1]
                       /\ positions'[k - 1].idx = positions[k].idx
                       /\ positions'[k - 1].perf > positions'[k].perf]_vars
    /\ [][(pc # "update" /\ pc' = "update") => (pc = "loop" /\ frame'.i = 0)]_vars
    /\ [][(pc = "update" /\ pc' # "update") =>
            (frame.i = Len(positions) /\ positions' = positions)]_vars
    /\ [][(pc \in {"incidents", "fastest"} /\ pc' = "loop") => lap' = lap + 1]_vars
    /\ [](pc = "update" => frame.i <= Len(positions))

\* a finished pass that swapped the first pair and left the second pair, both
\* active, as it was
C22_Witness ==
    /\ pc = "update"
    /\ Len(positions) = 3
    /\ frame.i = Len(positions)
    /\ positions[1].idx = frame.start[2].idx
    /\ positions[2].idx = frame.start[1].idx
    /\ positions[3].idx = frame.start[3].idx
    /\ positions[3].active
    /\ lap > 1


(***************************************************************************)
(* The lap in two steps, as the specification words it: every active entry *)
(* is resampled from its base performance, then the adjacent pairs are     *)
(* scanned once from the front.  zs[k] and us[k] are the draws of the      *)
(* entry that stood at list index k when the lap began.                    *)
(***************************************************************************)
ResampleAll(pos, perf_map, p, zs) ==
    [k \in DOMAIN pos |->
        IF pos[k].active
        THEN [pos[k] EXCEPT !.perf = LapPerformance(perf_map[pos[k].idx], p, zs[k])]
        ELSE pos[k]]

RECURSIVE ScanFrom(_, _, _)
ScanFrom(pos, k, us) ==
    IF k > Len(pos) THEN pos
    ELSE IF /\ pos[k].active
            /\ pos[k - 1].active
            /\ pos[k].perf > pos[k - 1].perf
            /\ us[k] * 40000 < pos[k].perf - pos[k - 1].perf
         THEN ScanFrom(Swap(pos, k, k - 1), k + 1, us)
         ELSE ScanFrom(pos, k + 1, us)

TwoStepLap(pos, perf_map, p, zs, us) ==
    ScanFrom(ResampleAll(pos, perf_map, p, zs), 2, us)

\* the score of this lap of the entry that began the lap at list index j
LapScore(j) ==
    LapPerformance(driver_performance[frame.start[j].idx], params, frame.zs[j])

\* C23: the interleaved loop of update_race_positions is the two-step lap:
\* an active entry whose iteration has run holds the one score resampled from
\* its base performance with the draw of that iteration, every other entry is
\* as it was when the lap began, the entry ahead of the next pair examined
\* holds a score of this lap if it is active, and the finished call leaves
\* the order of resampling all active entries first and scanning the adjacent
\* pairs once afterwards with the same draws.
C23_InterleavedLoopIsTwoStepLap ==
    pc = "update" =>
        /\ \A j \in DOMAIN frame.start :
               LET e == positions[IndexIn(positions, frame.start[j].idx)]
               IN  IF j <= frame.i /\ frame.start[j].active
                   THEN e = [frame.start[j] EXCEPT !.perf = LapScore(j)]
                   ELSE e = frame.start[j]
        /\ (frame.i >= 1 /\ positions[frame.i].active) =>
               \E j \in 1..frame.i :
                   /\ positions[frame.i].idx = frame.start[j].idx
                   /\ positions[frame.i].perf = LapScore(j)
        /\ frame.i = Len(positions) =>
               /\ positions = TwoStepLap(frame.start, driver_performance, params,
                                         frame.zs, frame.us)
               /\ positions = update_race_positions(frame.start, driver_performance,
                                                    params, frame.zs, frame.us)

\* a finished pass of a later lap in which the last entry overtook and the
\* first entry holds a score other than the one it began the lap with
C23_Witness ==
    /\ pc = "update"
    /\ lap > 1
    /\ Len(positions) = 3
    /\ frame.i = Len(positions)
    /\ positions[2].idx = frame.start[3].idx
    /\ positions[1].idx = frame.start[1].idx
    /\ positions[1].perf # frame.start[1].perf


(***************************************************************************)
(* The fastest-lap record over the calls of update_fastest_lap.            *)
(***************************************************************************)
\* the list indices of the entries still racing
ActiveIndices(pos) == {k \in DOMAIN pos : pos[k].active}

\* the lap time of the entry at list index k, with k = 0.15
LapTimeAt(pos, k) == PerformanceToTime(pos[k].perf, 135)

\* the first of the active entries whose lap time no active entry beats
FastestActive(pos) ==
    CHOOSE k \in ActiveIndices(pos) :
        /\ \A j \in ActiveIndices(pos) : DurLessEq(LapTimeAt(pos, k), LapTimeAt(pos, j))
        /\ \A j \in ActiveIndices(pos) :
               j < k => DurLess(LapTimeAt(pos, k), LapTimeAt(pos, j))

\* C24: an update_fastest_lap call leaves the record at the minimum of the
\* record it found and the lap times of the entries active in this call, with
\* the driver that set it: a lap without active entries changes nothing, a
\* record that is not beaten (an equal time included) stays with its holder,
\* the recorded time never increases, a record is never cleared, and no other
\* step of the race touches the record.  So the record is the minimum over
\* the active entries of all calls made so far.
C24_FastestLapIsRunningMinimum ==
    /\ [][pc = "fastest" =>
            /\ IF ActiveIndices(positions) = {}
               THEN fastest_lap' = fastest_lap
               ELSE LET k == FastestActive(positions)
                    IN  IF /\ fastest_lap # <<>>
                           /\ DurLessEq(fastest_lap[1].time, LapTimeAt(positions, k))
                        THEN fastest_lap' = fastest_lap
                        ELSE fastest_lap' = <<[idx |-> positions[k].idx,
                                               time |-> LapTimeAt(positions, k)]>>
            /\ fastest_lap # <<>> =>
                   /\ fastest_lap' # <<>>
                   /\ DurLessEq(fastest_lap'[1].time, fastest_lap[1].time)]_vars
    /\ [][pc # "fastest" => fastest_lap' = fastest_lap]_vars

\* a race that ended with the record in the hands of a driver who retired
\* after setting it, with two drivers still racing
C24_Witness ==
    /\ pc = "done"
    /\ Len(positions) = 3
    /\ fastest_lap # <<>>
    /\ Retired(fastest_lap[1].idx)
    /\ Cardinality(ActiveIndices(positions)) = 2


\* the places driver d has gained since the call began (negative: lost)
PlacesGained(d) == IndexIn(frame.start, d) - IndexIn(positions, d)

\* C26: in one update_race_positions call no entry moves forward, toward index
\* 0, by more than one position, at any point of the call and whatever the
\* scores and the draws; an entry can lose more than one position.
C26_AtMostOnePlaceGainedPerCall ==
    pc = "update" =>
        \A d \in DriverIndices : PlacesGained(d) <= 1

\* a finished pass in which the leader was overtaken twice and the two others
\* gained one place each
C26_Witness ==
    /\ pc = "update"
    /\ Len(positions) = 3
    /\ frame.i = Len(positions)
    /\ PlacesGained(frame.start[1].idx) = -2
    /\ PlacesGained(frame.start[2].idx) = 1
    /\ PlacesGained(frame.start[3].idx) = 1


(***************************************************************************)
(* The historical replay, simulate_interactive_historical_race, lap by     *)
(* lap.  results is final_results, positions the Vec<usize> of the order,  *)
(* laps is total_laps, dnf_drivers is current_dnfs, frame.dnfs the result  *)
(* of identify_dnfs and frame.grid the one of create_starting_grid.        *)
(*   pc = "replay"            at the head of the function                  *)
(*   pc = "replay_positions"  at the head of `for lap in 1..=total_laps`   *)
(*   pc = "replay_dnfs"       before `if !dnfs.is_empty()` of this lap     *)
(*   pc = "returned"          after Ok(()) or a panic                      *)
(* A comparison `rand::random::<f32>() < p` with 0 < p < 1 can go either   *)
(* way, so the functions that draw are modelled by the set of their        *)
(* possible results.                                                       *)
(***************************************************************************)
\* estimate_laps_for_circuit
estimate_laps_for_circuit(circuit) ==
    CASE circuit.id \in {"monza", "suzuka"} -> 53
      [] circuit.id = "monaco" -> 78
      [] circuit.id = "spa" -> 44
      [] circuit.id = "silverstone" -> 52
      [] circuit.id \in {"bahrain", "miami", "losail"} -> 57
      [] circuit.id \in {"jeddah", "vegas"} -> 50
      [] circuit.id \in {"albert_park", "yas_marina"} -> 58
      [] circuit.id = "baku" -> 51
      [] circuit.id = "imola" -> 63
      [] circuit.id = "catalunya" -> 66
      [] circuit.id \in {"villeneuve", "hungaroring"} -> 70
      [] circuit.id \in {"red_bull_ring", "rodriguez", "interlagos"} -> 71
      [] circuit.id = "zandvoort" -> 72
      [] circuit.id = "marina_bay" -> 62
      [] circuit.id = "americas" -> 56
      [] OTHER -> IF circuit.laps > 50 THEN circuit.laps ELSE 50

\* the grids the loop of create_starting_grid can leave, from its iteration i
\* (0-based) on; swap_pos is (i + step).max(3).min(len - 4)
RECURSIVE GridFrom(_, _)
GridFrom(grid, i) ==
    LET low(x) == IF x > 3 THEN x ELSE 3
        swap_pos(step) ==
            IF low(i + step) < Len(grid) - 4 THEN low(i + step) ELSE Len(grid) - 4
    IN  IF i >= Len(grid) THEN {grid}
        ELSE IF i < 3 /\ grid[i + 1] < 6 THEN GridFrom(grid, i + 1)
        ELSE IF i >= 3 /\ i < Len(grid) - 3
             THEN GridFrom(grid, i + 1)
                  \cup UNION {GridFrom(Swap(grid, i + 1, swap_pos(step) + 1), i + 1) :
                                 step \in {1, -1}}
             ELSE GridFrom(grid, i + 1)

create_starting_grid(final_results) ==
    GridFrom([k \in 1..Len(final_results) |-> k - 1], 0)

\* identify_dnfs; !status.contains("Finished") && !status.contains("+") is
\* evaluated for the statuses of the classifications replayed
identify_dnfs(final_results) ==
    LET idx == {k \in DOMAIN final_results :
                   final_results[k].status \notin {"Finished", "+1 Lap"}}
        nth(j) == CHOOSE k \in idx : Cardinality({m \in idx : m < k}) = j - 1
    IN  [j \in 1..Cardinality(idx) |-> nth(j) - 1]

\* a mutation of NextShouldBeAhead: the comparison is the other way round
NextShouldBeBehind(next_target_pos, current_target_pos) ==
    next_target_pos > current_target_pos

\* next_target_pos < current_target_pos
NextShouldBeAhead(next_target_pos, current_target_pos) ==
    next_target_pos < current_target_pos

\* the orders the loop of update_positions_for_lap can leave, from its
\* iteration i (0-based) on; the list is not empty.  target is
\* (0..final_results.len()), so target.iter().position(|&x| x == driver) is
\* Some(driver) for a driver below final_results.len() and None otherwise.
RECURSIVE ReplayFrom(_, _, _)
ReplayFrom(pos, i, final_results) ==
    IF i >= Len(pos) - 1 THEN {pos}
    ELSE
        LET current_driver == pos[i + 1]
            next_driver == pos[i + 2]
            current_target_pos ==
                IF current_driver < Len(final_results) THEN current_driver ELSE i
            next_target_pos ==
                IF next_driver < Len(final_results) THEN next_driver ELSE i + 1
        IN  IF NextShouldBeAhead(next_target_pos, current_target_pos)
            THEN ReplayFrom(Swap(pos, i + 1, i + 2), i + 1, final_results)
                 \cup ReplayFrom(pos, i + 1, final_results)
            ELSE ReplayFrom(pos, i + 1, final_results)

update_positions_for_lap(pos, final_results) ==
    ReplayFrom(pos, 0, final_results)

\* the entries of all_dnfs whose list index is in chosen, in the order of the list
RECURSIVE PickFrom(_, _, _)
PickFrom(all_dnfs, k, chosen) ==
    IF k > Len(all_dnfs) THEN <<>>
    ELSE (IF k \in chosen THEN <<all_dnfs[k]>> ELSE <<>>)
         \o PickFrom(all_dnfs, k + 1, chosen)

\* check_for_lap_dnfs: every entry of all_dnfs is drawn for on its own
check_for_lap_dnfs(all_dnfs) ==
    {PickFrom(all_dnfs, 1, chosen) : chosen \in SUBSET DOMAIN all_dnfs}

\* lines 60-84: total_laps, the starting grid, dnfs and current_dnfs
BeginReplay ==
    /\ pc = "replay"
    /\ laps' = estimate_laps_for_circuit(call.circuit)
    /\ positions' \in create_starting_grid(results)
    /\ frame' = [dnfs |-> identify_dnfs(results), grid |-> positions']
    /\ dnf_drivers' = <<>>
    /\ lap' = 1
    /\ pc' = "replay_positions"
    /\ UNCHANGED entry_vars
    /\ UNCHANGED <<drivers, params, driver_performance, fastest_lap, results>>

\* line 89
ReplayUpdatePositions ==
    /\ pc = "replay_positions"
    /\ lap <= laps
    /\ IF positions = <<>>
       THEN /\ outcome' \in EmptyOrderPanics
            /\ pc' = "returned"
            /\ UNCHANGED positions
       ELSE /\ positions' \in update_positions_for_lap(positions, results)
            /\ pc' = "replay_dnfs"
            /\ UNCHANGED outcome
    /\ UNCHANGED <<drivers, params, laps, lap, driver_performance, dnf_drivers,
                   fastest_lap, results, call, stats, history, loads, frame>>

\* lines 91-121: the retirements reported on this lap, and the step to the
\* next lap
ReplayCheckDnfs ==
    /\ pc = "replay_dnfs"
    /\ IF frame.dnfs # <<>>
       THEN \E lap_dnfs \in check_for_lap_dnfs(frame.dnfs) :
                /\ Len(dnf_drivers) + Len(lap_dnfs) <= MaxReports
                /\ dnf_drivers' = dnf_drivers \o lap_dnfs
       ELSE UNCHANGED dnf_drivers
    /\ lap' = lap + 1
    /\ pc' = "replay_positions"
    /\ UNCHANGED entry_vars
    /\ UNCHANGED <<drivers, params, laps, positions, driver_performance,
                   fastest_lap, results, frame>>

\* lines 123-127
EndReplay ==
    /\ pc = "replay_positions"
    /\ lap > laps
    /\ outcome' = <<"Ok">>
    /\ pc' = "returned"
    /\ UNCHANGED <<drivers, params, laps, lap, positions, driver_performance,
                   dnf_drivers, fastest_lap, results, call, stats, history, loads,
                   frame>>

\* a final classification of n rows of which the last ones retired
Classification(n, retired) ==
    [k \in 1..n |->
        [position |-> k, driver |-> k - 1,
         status |-> IF k > n - retired THEN "Engine"
                    ELSE IF k = n - retired /\ k > 1 THEN "+1 Lap"
                    ELSE "Finished"]]

InitReplay ==
    /\ call \in [entry : {"replay"},
                 circuit : {[id |-> "spa", laps |-> 44], [id |-> "unknown", laps |-> 0]}]
    /\ \E n \in {0, 1, MaxReplayRows}, retired \in 0..2 :
           /\ retired <= n
           /\ results = Classification(n, retired)
    /\ drivers = <<>>
    /\ params = DefaultParameters
    /\ laps = 0
    /\ pc = "replay"
    /\ lap = 0
    /\ positions = <<>>
    /\ driver_performance = <<>>
    /\ dnf_drivers = <<>>
    /\ fastest_lap = <<>>
    /\ outcome = <<>>
    /\ stats = <<>>
    /\ history = <<>>
    /\ loads = <<>>
    /\ frame = <<>>

NextReplay ==
    \/ BeginReplay
    \/ ReplayUpdatePositions
    \/ ReplayCheckDnfs
    \/ EndReplay

SpecReplay == InitReplay /\ [][NextReplay]_vars


\* the number of laps on which result row d was reported retired
TimesReported(d) ==
    Cardinality({k \in DOMAIN dnf_drivers : dnf_drivers[k] = d})

\* C25: in the replay every competitor identified as did-not-finish is reported
\* retired on exactly one of the laps 1 to total_laps, never on more than one
\* and never on none.
C25_EveryDnfReportedOnOneLap ==
    /\ pc \in {"replay_positions", "replay_dnfs", "returned"} =>
           \A j \in DOMAIN frame.dnfs : TimesReported(frame.dnfs[j]) <= 1
    /\ (pc = "returned" /\ outcome = <<"Ok">>) =>
           \A j \in DOMAIN frame.dnfs : TimesReported(frame.dnfs[j]) = 1

\* a replay that reported the same competitor retired on two laps
C25_ReportedTwice ==
    /\ pc = "returned"
    /\ outcome = <<"Ok">>
    /\ frame.dnfs = <<0>>
    /\ dnf_drivers = <<0, 0>>


(***************************************************************************)
(* dnf_drivers against the active flags.                                   *)
(***************************************************************************)
\* the drivers of the rows of the final results with the given status
RowDrivers(status) ==
    {results[k].driver : k \in {j \in DOMAIN results : results[j].status = status}}

\* C27: all through a race run, and so at the end of every lap, the drivers
\* recorded in dnf_drivers are the drivers whose position entry is inactive;
\* the finisher rows and the DNF rows of the final results together name
\* every competitor, and no competitor is named by both.
C27_DnfListMatchesInactiveEntries ==
    /\ pc \in {"loop", "incidents", "fastest", "done"} =>
           Range(dnf_drivers) =
               {positions[k].idx : k \in DOMAIN positions \ ActiveIndices(positions)}
    /\ pc = "done" =>
           /\ RowDrivers("Finished") \cup RowDrivers("DNF") = DriverIndices
           /\ RowDrivers("Finished") \cap RowDrivers("DNF") = {}

\* final results of three competitors with two DNF rows, for two drivers
C27_Witness ==
    /\ pc = "done"
    /\ Len(results) = 3
    /\ Len(dnf_drivers) = 2
    /\ Cardinality(RowDrivers("DNF")) = 2
    /\ Cardinality(RowDrivers("Finished")) = 1


(***************************************************************************)
(* The replayed order against the final classification.  A result index   *)
(* is its own place in the final classification.                           *)
(***************************************************************************)
\* the pairs of list places whose drivers stand against the final classification
Inversions(pos) ==
    {pair \in (DOMAIN pos) \X (DOMAIN pos) :
        pair[1] < pair[2] /\ pos[pair[1]] > pos[pair[2]]}

\* the list place of result index d
PlaceIn(pos, d) == CHOOSE k \in DOMAIN pos : pos[k] = d

\* an update_positions_for_lap call that returns
ReplayLapUpdate == pc = "replay_positions" /\ pc' = "replay_dnfs"

\* C28: in the historical replay the order is always a permutation of the
\* result indices; an update_positions_for_lap call changes the relative order
\* of two drivers only if they stood against the final classification, so
\* the number of inversions never increases; and an order equal to the final
\* classification stays as it is for all later laps.
C28_ReplayOnlyRepairsOrder ==
    /\ [](pc \in {"replay_positions", "replay_dnfs", "returned"} =>
             /\ Len(positions) = Len(results)
             /\ \A d \in 0..(Len(results) - 1) : \E k \in DOMAIN positions : positions[k] = d)
    /\ [][ReplayLapUpdate =>
             /\ \A a, b \in 0..(Len(results) - 1) :
                    (/\ PlaceIn(positions, a) < PlaceIn(positions, b)
                     /\ PlaceIn(positions', b) < PlaceIn(positions', a)) => b < a
             /\ Cardinality(Inversions(positions')) <= Cardinality(Inversions(positions))]_vars
    /\ [][(pc # "replay" /\ Inversions(positions) = {}) => positions' = positions]_vars
    /\ [][(pc # "replay" /\ ~ReplayLapUpdate) => positions' = positions]_vars

\* a replay whose grid had two pairs against the final classification and
\* whose order has become the final classification
C28_Witness ==
    /\ pc = "replay_dnfs"
    /\ Len(results) = MaxReplayRows
    /\ Cardinality(Inversions(frame.grid)) = 2
    /\ Inversions(positions) = {}


\* C29: the interactive historical replay accepts a race whose result list is
\* empty: the starting grid is empty, every update_positions_for_lap call
\* leaves the empty order as it is, and the replay ends with Ok(()), with no
\* arithmetic underflow and no index out of range.
C29_EmptyResultListReplayed ==
    results = <<>> =>
        /\ positions = <<>>
        /\ outcome \in {<<>>, <<"Ok">>}

\* the replay of an empty result list has stopped in its first lap
C29_PanicOnEmptyOrder ==
    /\ results = <<>>
    /\ positions = <<>>
    /\ pc = "returned"
    /\ lap = 1
    /\ outcome \in EmptyOrderPanics


\* C30: prediction::simulate completes with Ok(()) for every run count,
\* runs = 0 included: every average and probability of driver_stats is a
\* quotient by a run count that is not zero, and the sort by average points
\* succeeds.
C30_PredictionCompletesForEveryRunCount ==
    pc = "returned" =>
        /\ outcome = <<"Ok">>
        /\ \A k \in DOMAIN results : results[k].runs > 0

\* a prediction of no runs for four drivers has stopped in the sort
C30_PanicOnZeroRuns ==
    /\ pc = "returned"
    /\ call.runs = 0
    /\ Len(drivers) = MaxAggDrivers
    /\ history = <<>>
    /\ outcome = <<"Panic", "partial_cmp of NaN is None">>

====
